---- MODULE Spec2Model ----
(***************************************************************************)
(* goqdsl: the predicate / placeholder-numbering engine and the statement  *)
(* builders, in both addressing schemes of the repository:                 *)
(*   positional ($1, $2, ...)  src/predicate.go, src/internal/goqdsl/*.go, *)
(*                             src/insert.go, src/delete.go:1-53           *)
(*   named (@p1, @p2, ...)     src/unnamed/part_004, src/builder.go,       *)
(*                             src/delete.go:55-130, src/goqdsl.go         *)
(*                                                                         *)
(* SQL text is a sequence of chunks.  Every character that a scanner of    *)
(* the code looks at ("$", "@", digits, the letters of names) is a chunk   *)
(* of its own; a chunk of several characters stands for literal text that  *)
(* holds no "$", no "@" and is never part of a \d+ or \w+ run.             *)
(***************************************************************************)
EXTENDS Integers, Sequences, FiniteSets, TLC

VARIABLES
    pmode,   \* predicate harness: "pos" or "named" (which package's Predicate)
    pred,    \* predicate harness: the predicate tree under test
    start,   \* predicate harness: the cursor handed to ToSQL
    out,     \* predicate harness: what ToSQL returned
    mode,    \* builder: "pos" or "named" (which package's builders)
    b,       \* builder: the *XBuilder object (all of its fields)
    res,     \* builder: what the last Build returned
    query,   \* bridge: the text with @name markers
    namedArgs, \* bridge: the map[string]any that goes with it (named)
    conv,    \* bridge: what namedToPositional returned
    inl,     \* debug helper: what ToSQL(b) returned
    thr,     \* concurrent callers: each goroutine's position in Build and its locals
    calls,   \* builder (instrumentation): the arguments the accumulating chain
             \* methods were called with, in call order
    scan     \* row scanning: the struct type, the row's columns, the destinations

vars == <<pmode, pred, start, out, mode, b, res, query, namedArgs, conv, inl, thr, calls, scan>>

predVars    == <<pmode, pred, start, out>>
builderVars == <<mode, b, res, calls>>
bridgeVars  == <<query, namedArgs, conv>>

(***************************************************************************)
(* Bounds of the model.                                                    *)
(***************************************************************************)
MaxCursor   == 3    \* start cursors 1..MaxCursor in the predicate harness
MaxChildren == 3    \* And/Or take 0..MaxChildren children
MaxWhere    == 2    \* predicates held by a WHERE list
MaxHaving   == 1    \* predicates held by a HAVING list
MaxSets     == 2    \* SET assignments of an UPDATE
MaxRows     == 2    \* VALUES rows of an INSERT
MaxCells    == 2    \* cells of one VALUES row

(***************************************************************************)
(* Values (Go `any`): one record shape for every dynamic type.             *)
(***************************************************************************)
IntV(n)  == [k |-> "int",  n |-> n, s |-> <<>>]
StrV(s)  == [k |-> "str",  n |-> 0, s |-> s]
BoolV(t) == [k |-> "bool", n |-> IF t THEN 1 ELSE 0, s |-> <<>>]
NilV     == [k |-> "nil",  n |-> 0, s |-> <<>>]

(***************************************************************************)
(* fmt.Sprintf("%d", n) and strconv.Atoi on chunk sequences.               *)
(***************************************************************************)
DigitChars == <<"0", "1", "2", "3", "4", "5", "6", "7", "8", "9">>
DigitSet   == {DigitChars[i] : i \in 1..10}
Letters    == {"a", "b", "c", "d", "e", "h", "i", "l", "n", "o", "p", "t", "u", "w", "x", "_"}

IsDigit(ch) == ch \in DigitSet
IsWord(ch)  == ch \in DigitSet \cup Letters

DigitVal(ch) == CHOOSE d \in 0..9 : DigitChars[d + 1] = ch

\* the largest int, of a build whose int has 32 bits (a build with 64 bits
\* behaves alike at 2^63 - 1)
MaxInt == 2147483647
MinInt == (0 - MaxInt) - 1

\* a + k in the int type, for a >= 0 and 0 <= k <= MaxInt: past MaxInt the sum
\* wraps around to the negative numbers
WrapAdd(a, k) == IF a > MaxInt - k THEN (a - MaxInt) + (k - MaxInt) - 2 ELSE a + k

RECURSIVE FmtNat(_)
FmtNat(n) == IF n < 10 THEN <<DigitChars[n + 1]>>
             ELSE FmtNat(n \div 10) \o <<DigitChars[(n % 10) + 1]>>

\* %d
FmtInt(n) ==
    IF n >= 0 THEN FmtNat(n)
    ELSE IF n = MinInt
         THEN <<"-">> \o FmtNat(MaxInt \div 10) \o <<DigitChars[(MaxInt % 10) + 2]>>
         ELSE <<"-">> \o FmtNat(0 - n)

\* strconv.Atoi on a run of decimal digits, the error dropped as in "n, _ :=":
\* a value out of the range of int comes back as the largest int
RECURSIVE AtoiAcc(_, _)
AtoiAcc(ds, acc) == IF ds = <<>> THEN acc
                    ELSE IF acc > (MaxInt - DigitVal(Head(ds))) \div 10 THEN MaxInt
                    ELSE AtoiAcc(Tail(ds), acc * 10 + DigitVal(Head(ds)))

Atoi(ds) == AtoiAcc(ds, 0)

\* "$%d"
Dollar(n) == <<"$">> \o FmtInt(n)

\* strings.Join
RECURSIVE JoinStr(_, _)
JoinStr(parts, sep) ==
    IF parts = <<>> THEN <<>>
    ELSE IF Len(parts) = 1 THEN parts[1]
    ELSE parts[1] \o sep \o JoinStr(Tail(parts), sep)

\* append(dst, xs...) over a sequence of slices
RECURSIVE Flatten(_)
Flatten(ss) == IF ss = <<>> THEN <<>> ELSE Head(ss) \o Flatten(Tail(ss))

\* the longest prefix of t made of decimal digits: what (\d+) matches
RECURSIVE DigitRun(_)
DigitRun(t) == IF t # <<>> /\ IsDigit(Head(t)) THEN <<Head(t)>> \o DigitRun(Tail(t))
               ELSE <<>>

\* the longest prefix of t made of word characters: what (\w+) matches
RECURSIVE WordRun(_)
WordRun(t) == IF t # <<>> /\ IsWord(Head(t)) THEN <<Head(t)>> \o WordRun(Tail(t)) ELSE <<>>

Drop(t, n) == SubSeq(t, n + 1, Len(t))

\* a rawPred.ToSQL that leaves the fragment's markers as the caller wrote them
ShiftPlaceholders_NoShift(t, offset) == t

\* a rewrite that numbers the markers one by one as it meets them
RECURSIVE ShiftPlaceholders_PerOccurrence(_, _)
ShiftPlaceholders_PerOccurrence(t, offset) ==
    IF t = <<>> THEN <<>>
    ELSE IF Head(t) = "$" /\ DigitRun(Tail(t)) # <<>>
         THEN Dollar(offset)
                \o ShiftPlaceholders_PerOccurrence(Drop(t, 1 + Len(DigitRun(Tail(t)))),
                                                   offset + 1)
         ELSE <<Head(t)>> \o ShiftPlaceholders_PerOccurrence(Tail(t), offset)

\* placeholderRe.ReplaceAllStringFunc(sql, func(match) "$" + (Atoi(match[1:]) + offset - 1))
RECURSIVE ShiftPlaceholders(_, _)
ShiftPlaceholders(t, offset) ==
    IF t = <<>> THEN <<>>
    ELSE IF Head(t) = "$" /\ DigitRun(Tail(t)) # <<>>
         THEN LET ds == DigitRun(Tail(t))
              IN  Dollar(WrapAdd(Atoi(ds), offset - 1))
                    \o ShiftPlaceholders(Drop(t, 1 + Len(ds)), offset)
         ELSE <<Head(t)>> \o ShiftPlaceholders(Tail(t), offset)

(***************************************************************************)
(* Predicates.  One record shape for every variant:                        *)
(*   kind   the Go type                                                    *)
(*   col    column text                                                    *)
(*   vals   val / pattern / vals / (low, high) / positional Raw args       *)
(*   preds  children of And / Or, the operand of Not                       *)
(*   sql    the fragment of Raw                                            *)
(*   named  the args map of the named Raw                                  *)
(***************************************************************************)
Pred(kind, col, vals, preds, sql, named) ==
    [kind |-> kind, col |-> col, vals |-> vals, preds |-> preds,
     sql |-> sql, named |-> named]

Cmp(kind, col, val)    == Pred(kind, col, <<val>>, <<>>, <<>>, <<>>)
Eq(col, val)           == Cmp("eqPred", col, val)
Neq(col, val)          == Cmp("neqPred", col, val)
Gt(col, val)           == Cmp("gtPred", col, val)
Gte(col, val)          == Cmp("gtePred", col, val)
Lt(col, val)           == Cmp("ltPred", col, val)
Lte(col, val)          == Cmp("ltePred", col, val)
Like(col, pattern)     == Cmp("likePred", col, pattern)
ILike(col, pattern)    == Cmp("ilikePred", col, pattern)
In(col, vals)          == Pred("inPred", col, vals, <<>>, <<>>, <<>>)
Between(col, low, high) == Pred("betweenPred", col, <<low, high>>, <<>>, <<>>, <<>>)
IsNull(col)            == Pred("isNullPred", col, <<>>, <<>>, <<>>, <<>>)
IsNotNull(col)         == Pred("isNotNullPred", col, <<>>, <<>>, <<>>, <<>>)
And(preds)             == Pred("andPred", <<>>, <<>>, preds, <<>>, <<>>)
Or(preds)              == Pred("orPred", <<>>, <<>>, preds, <<>>, <<>>)
Not(p)                 == Pred("notPred", <<>>, <<>>, <<p>>, <<>>, <<>>)
Raw(sql, args)         == Pred("rawPred", <<>>, args, <<>>, sql, <<>>)
RawNamed(sql, args)    == Pred("rawPred", <<>>, <<>>, <<>>, sql, args)

CmpKinds == {"eqPred", "neqPred", "gtPred", "gtePred", "ltPred", "ltePred",
             "likePred", "ilikePred"}

\* the operator text of the comparison and pattern predicates
OpText(kind) ==
    CASE kind = "eqPred"    -> <<" = ">>
      [] kind = "neqPred"   -> <<" != ">>
      [] kind = "gtPred"    -> <<" > ">>
      [] kind = "gtePred"   -> <<" >= ">>
      [] kind = "ltPred"    -> <<" < ">>
      [] kind = "ltePred"   -> <<" <= ">>
      [] kind = "likePred"  -> <<" LIKE ">>
      [] kind = "ilikePred" -> <<" ILIKE ">>

(***************************************************************************)
(* Positional rendering, src/predicate.go.  A result is                    *)
(*   [sql, args, newOffset] as returned by the code, and                   *)
(*   minted: the placeholder numbers handed to the values of args, in      *)
(*           order (instrumentation of the cursor; the code returns none). *)
(***************************************************************************)
R3(sql, args, newOffset, minted) ==
    [sql |-> sql, args |-> args, newOffset |-> newOffset, minted |-> minted]

\* a comparison that writes $1 whatever the offset it is given
cmpToSQL_AtOne(p, offset) ==
    R3(p.col \o OpText(p.kind) \o Dollar(1), <<p.vals[1]>>, offset + 1, <<offset>>)

\* eqPred.ToSQL .. ilikePred.ToSQL
cmpToSQL(p, offset) ==
    R3(p.col \o OpText(p.kind) \o Dollar(offset), <<p.vals[1]>>, offset + 1, <<offset>>)

\* an In that hands its placeholders out from the last value to the first
inToSQL_Reversed(p, offset) ==
    LET placeholders == [i \in 1..Len(p.vals) |-> Dollar(offset + (Len(p.vals) - i))]
    IN  R3(p.col \o <<" IN (">> \o JoinStr(placeholders, <<", ">>) \o <<")">>,
           p.vals, offset + Len(p.vals),
           [i \in 1..Len(p.vals) |-> offset + (i - 1)])

inToSQL(p, offset) ==
    LET placeholders == [i \in 1..Len(p.vals) |-> Dollar(offset + (i - 1))]
    IN  R3(p.col \o <<" IN (">> \o JoinStr(placeholders, <<", ">>) \o <<")">>,
           p.vals, offset + Len(p.vals),
           [i \in 1..Len(p.vals) |-> offset + (i - 1)])

betweenToSQL(p, offset) ==
    R3(p.col \o <<" BETWEEN ">> \o Dollar(offset) \o <<" AND ">> \o Dollar(offset + 1),
       <<p.vals[1], p.vals[2]>>, offset + 2, <<offset, offset + 1>>)

isNullToSQL(p, offset)    == R3(p.col \o <<" IS NULL">>, <<>>, offset, <<>>)
isNotNullToSQL(p, offset) == R3(p.col \o <<" IS NOT NULL">>, <<>>, offset, <<>>)

\* markers of a fragment: the "$" chunks that start a \d+ run
RECURSIVE CountMarkers(_)
CountMarkers(t) ==
    IF t = <<>> THEN 0
    ELSE (IF Head(t) = "$" /\ DigitRun(Tail(t)) # <<>> THEN 1 ELSE 0) + CountMarkers(Tail(t))

\* rawPred.ToSQL advancing the cursor by the markers it rewrote
rawToSQL_ByMarkers(p, offset) ==
    [sql |-> ShiftPlaceholders(p.sql, offset), args |-> p.vals,
     newOffset |-> offset + CountMarkers(p.sql),
     minted |-> [i \in 1..Len(p.vals) |-> offset + (i - 1)]]

rawToSQL(p, offset) ==
    R3(ShiftPlaceholders(p.sql, offset), p.vals, offset + Len(p.vals),
       [i \in 1..Len(p.vals) |-> offset + (i - 1)])

RECURSIVE ToSQL(_, _)

\* the loop of combinePredicates rendering every child at the node's cursor
RECURSIVE renderEach_SameCursor(_, _)
renderEach_SameCursor(preds, cur) ==
    IF preds = <<>> THEN <<>>
    ELSE <<ToSQL(Head(preds), cur)>> \o renderEach_SameCursor(Tail(preds), cur)

\* the loop of combinePredicates: the results of the children, each child
\* rendered at the cursor its predecessor returned
RECURSIVE renderEach(_, _)
renderEach(preds, cur) ==
    IF preds = <<>> THEN <<>>
    ELSE LET r == ToSQL(Head(preds), cur)
         IN  <<r>> \o renderEach(Tail(preds), r.newOffset)

combineResults(rs, op, offset) ==
    R3(<<"(">> \o JoinStr([i \in 1..Len(rs) |-> rs[i].sql], <<" ">> \o op \o <<" ">>) \o <<")">>,
       Flatten([i \in 1..Len(rs) |-> rs[i].args]),
       IF rs = <<>> THEN offset ELSE rs[Len(rs)].newOffset,
       Flatten([i \in 1..Len(rs) |-> rs[i].minted]))

\* combinePredicates without its one-child return
combinePredicates_NoSingle(preds, op, offset) ==
    IF Len(preds) = 0 THEN [sql |-> <<>>, args |-> <<>>, newOffset |-> offset, minted |-> <<>>]
    ELSE combineResults(renderEach(preds, offset), op, offset)

combinePredicates(preds, op, offset) ==
    IF Len(preds) = 0 THEN R3(<<>>, <<>>, offset, <<>>)
    ELSE IF Len(preds) = 1 THEN ToSQL(preds[1], offset)
    ELSE combineResults(renderEach(preds, offset), op, offset)

notToSQL(p, offset) ==
    LET r == ToSQL(p.preds[1], offset)
    IN  R3(<<"NOT (">> \o r.sql \o <<")">>, r.args, r.newOffset, r.minted)

\* Predicate.ToSQL(offset): dynamic dispatch on the variant
ToSQL(p, offset) ==
    CASE p.kind \in CmpKinds         -> cmpToSQL(p, offset)
      [] p.kind = "inPred"           -> inToSQL(p, offset)
      [] p.kind = "betweenPred"      -> betweenToSQL(p, offset)
      [] p.kind = "isNullPred"       -> isNullToSQL(p, offset)
      [] p.kind = "isNotNullPred"    -> isNotNullToSQL(p, offset)
      [] p.kind = "rawPred"          -> rawToSQL(p, offset)
      [] p.kind = "andPred"          -> combinePredicates(p.preds, <<"AND">>, offset)
      [] p.kind = "orPred"           -> combinePredicates(p.preds, <<"OR">>, offset)
      [] p.kind = "notPred"          -> notToSQL(p, offset)

(***************************************************************************)
(* Named rendering, src/unnamed/part_004.  The code's counter is a *int    *)
(* the predicate increments in place; here a render takes the counter's    *)
(* value and returns, with [sql, args], the value it leaves in it.  args   *)
(* (a map[string]any) is a function from names to values; minted lists the *)
(* names nextParam produced, in order (instrumentation).                   *)
(***************************************************************************)
RN(sql, args, counter, minted) ==
    [sql |-> sql, args |-> args, counter |-> counter, minted |-> minted]

\* a merge that keeps the entry dst already holds
mergeArgs_KeepFirst(dst, src) == dst @@ src

\* mergeArgs(dst, src): dst after the copy
mergeArgs(dst, src) == src @@ dst

\* a nextParam whose names also count the renders that came before
nextParam_Shared(counter) ==
    [counter |-> counter + 1,
     name |-> <<"p">> \o FmtInt(counter + 1 + (IF out.done THEN 1 ELSE 0))]

\* nextParam(&counter): the incremented counter and "p%d" of it
nextParam(counter) == [counter |-> counter + 1, name |-> <<"p">> \o FmtInt(counter + 1)]

At(name) == <<"@">> \o name

cmpToSQLN(p, counter) ==
    LET np == nextParam(counter)
    IN  RN(p.col \o OpText(p.kind) \o At(np.name), np.name :> p.vals[1],
           np.counter, <<np.name>>)

\* the loop of inPred.ToSQL over p.vals[i..]
RECURSIVE inLoopN(_, _, _)
inLoopN(vals, counter, acc) ==
    IF vals = <<>> THEN [acc EXCEPT !.counter = counter]
    ELSE LET np == nextParam(counter)
         IN  inLoopN(Tail(vals), np.counter,
                     [acc EXCEPT !.sql = Append(@, At(np.name)),
                                 !.args = (np.name :> Head(vals)) @@ @,
                                 !.minted = Append(@, np.name)])

inToSQLN(p, counter) ==
    LET l == inLoopN(p.vals, counter, RN(<<>>, <<>>, counter, <<>>))
    IN  RN(p.col \o <<" IN (">> \o JoinStr(l.sql, <<", ">>) \o <<")">>,
           l.args, l.counter, l.minted)

\* a between that binds the high value to the low name and the low to the high
betweenToSQLN_Swapped(p, counter) ==
    LET lowName  == nextParam(counter)
        highName == nextParam(lowName.counter)
    IN  RN(p.col \o <<" BETWEEN ">> \o At(lowName.name) \o <<" AND ">> \o At(highName.name),
           (highName.name :> p.vals[1]) @@ (lowName.name :> p.vals[2]),
           highName.counter, <<lowName.name, highName.name>>)

betweenToSQLN(p, counter) ==
    LET lowName  == nextParam(counter)
        highName == nextParam(lowName.counter)
    IN  RN(p.col \o <<" BETWEEN ">> \o At(lowName.name) \o <<" AND ">> \o At(highName.name),
           (highName.name :> p.vals[2]) @@ (lowName.name :> p.vals[1]),
           highName.counter, <<lowName.name, highName.name>>)

isNullToSQLN(p, counter)    == RN(p.col \o <<" IS NULL">>, <<>>, counter, <<>>)
isNotNullToSQLN(p, counter) == RN(p.col \o <<" IS NOT NULL">>, <<>>, counter, <<>>)

\* a named Raw that moves the counter past one name per arg
rawToSQLN_Advances(p, counter) ==
    [sql |-> p.sql, args |-> p.named,
     counter |-> counter + Cardinality(DOMAIN p.named), minted |-> <<>>]

rawToSQLN(p, counter) == RN(p.sql, p.named, counter, <<>>)

RECURSIVE ToSQLN(_, _)

RECURSIVE renderEachN(_, _)
renderEachN(preds, counter) ==
    IF preds = <<>> THEN <<>>
    ELSE LET r == ToSQLN(Head(preds), counter)
         IN  <<r>> \o renderEachN(Tail(preds), r.counter)

\* allArgs after mergeArgs(allArgs, args) for each child in turn
RECURSIVE mergeAll(_, _)
mergeAll(dst, srcs) ==
    IF srcs = <<>> THEN dst ELSE mergeAll(mergeArgs(dst, Head(srcs)), Tail(srcs))

combineResultsN(rs, op, counter) ==
    RN(<<"(">> \o JoinStr([i \in 1..Len(rs) |-> rs[i].sql], <<" ">> \o op \o <<" ">>) \o <<")">>,
       mergeAll(<<>>, [i \in 1..Len(rs) |-> rs[i].args]),
       IF rs = <<>> THEN counter ELSE rs[Len(rs)].counter,
       Flatten([i \in 1..Len(rs) |-> rs[i].minted]))

combinePredicatesN(preds, op, counter) ==
    IF Len(preds) = 0 THEN RN(<<>>, <<>>, counter, <<>>)
    ELSE IF Len(preds) = 1 THEN ToSQLN(preds[1], counter)
    ELSE combineResultsN(renderEachN(preds, counter), op, counter)

notToSQLN(p, counter) ==
    LET r == ToSQLN(p.preds[1], counter)
    IN  RN(<<"NOT (">> \o r.sql \o <<")">>, r.args, r.counter, r.minted)

\* Predicate.ToSQL(counter) of the named package
ToSQLN(p, counter) ==
    CASE p.kind \in CmpKinds         -> cmpToSQLN(p, counter)
      [] p.kind = "inPred"           -> inToSQLN(p, counter)
      [] p.kind = "betweenPred"      -> betweenToSQLN(p, counter)
      [] p.kind = "isNullPred"       -> isNullToSQLN(p, counter)
      [] p.kind = "isNotNullPred"    -> isNotNullToSQLN(p, counter)
      [] p.kind = "rawPred"          -> rawToSQLN(p, counter)
      [] p.kind = "andPred"          -> combinePredicatesN(p.preds, <<"AND">>, counter)
      [] p.kind = "orPred"           -> combinePredicatesN(p.preds, <<"OR">>, counter)
      [] p.kind = "notPred"          -> notToSQLN(p, counter)

(***************************************************************************)
(* The predicate trees and values the model draws its inputs from.         *)
(***************************************************************************)
ColA == <<"a">>
ColB == <<"b">>
V1   == IntV(7)
V2   == StrV(<<"x">>)

SeqsUpTo(S, n) == UNION {[1..k -> S] : k \in 0..n}

\* positional Raw fragments: without markers, $1 and $2, $1 twice, a "$" that
\* starts no marker, a two-digit marker, and fragments whose markers do not
\* match the args given with them
RawPlain   == Raw(<<"now()">>, <<>>)
RawBetween == Raw(<<"c", " BETWEEN ", "$", "1", " AND ", "$", "2">>, <<V1, V2>>)
RawReuse   == Raw(<<"(", "a", " = ", "$", "1", " OR ", "b", " = ", "$", "1", ")">>, <<V2>>)
RawNoDigit == Raw(<<"a", " = ", "$", "x">>, <<>>)
RawBeyond  == Raw(<<"a", " = ", "$", "2">>, <<V1>>)
RawUnused  == Raw(<<"a", " = ", "$", "1">>, <<V1, V2>>)
RawTen     == Raw(<<"c", " = ", "$", "1", "0">>, <<V1>>)
RawMix     == Raw(<<"(", "a", " = ", "$", "1", " OR ", "b", " = ", "$", "2", " OR ", "c", " = ", "$", "1", ")">>,
                  <<V2, V1>>)
\* a marker whose digits are no int
RawHuge    == Raw(<<"a", " = ", "$", "9", "9", "9", "9", "9", "9", "9", "9", "9", "9">>, <<V1>>)
RawsPos    == {RawPlain, RawBetween, RawReuse, RawNoDigit, RawBeyond, RawUnused, RawTen, RawMix,
               RawHuge}

\* named Raw fragments: nil map, two names, one name twice, and a name that
\* is also an auto-generated one
NameLo == <<"l", "o">>
NameHi == <<"h", "i">>
NameId == <<"i", "d">>
NameP1 == <<"p", "1">>
RawPlainN   == RawNamed(<<"now()">>, <<>>)
RawBetweenN == RawNamed(<<"c", " BETWEEN ", "@", "l", "o", " AND ", "@", "h", "i">>,
                        (NameLo :> V1) @@ (NameHi :> V2))
RawReuseN   == RawNamed(<<"(", "a", " = ", "@", "i", "d", " OR ", "b", " = ", "@", "i", "d", ")">>,
                        NameId :> V2)
RawClashN   == RawNamed(<<"c", " = ", "@", "p", "1">>, NameP1 :> V2)
RawMixN     == RawNamed(<<"(", "a", " = ", "@", "i", "d", " OR ", "b", " = ", "@", "l", "o", " OR ", "c", " = ", "@", "i", "d", ")">>,
                        (NameId :> V2) @@ (NameLo :> V1))
RawsNamed   == {RawPlainN, RawBetweenN, RawReuseN, RawClashN, RawMixN}

Leaves(raws) ==
    {Cmp(k, ColA, V1) : k \in CmpKinds}
      \cup {Eq(ColB, V2), Between(ColB, V1, V2), IsNull(ColA), IsNotNull(ColB)}
      \cup {In(ColA, vs) : vs \in {<<>>, <<V1>>, <<V1, V2>>, <<V2, V1, V1>>}}
      \cup raws

\* the children And/Or and Not are given in the harness
Core(rawReuse, rawBetween) ==
    {Eq(ColA, V1), In(ColA, <<V1, V2>>), IsNull(ColA), rawReuse, rawBetween}

Inner(rawReuse) ==
    {Eq(ColB, V2),
     And(<<Eq(ColA, V1), In(ColA, <<V1, V2>>)>>),
     Or(<<Eq(ColA, V1), rawReuse>>),
     Not(Eq(ColA, V1)),
     And(<<>>),
     Or(<<IsNull(ColA)>>)}

Combos(S, n) == {And(ps) : ps \in SeqsUpTo(S, n)} \cup {Or(ps) : ps \in SeqsUpTo(S, n)}

PredSet(raws, rawReuse, rawBetween) ==
    Leaves(raws)
      \cup Combos(Core(rawReuse, rawBetween), MaxChildren)
      \cup Combos(Inner(rawReuse), 2)
      \cup {Not(p) : p \in Leaves(raws) \cup Inner(rawReuse)}
      \cup {And(<<Or(<<Eq(ColA, V1), And(<<Eq(ColB, V2), Between(ColB, V1, V2)>>)>>),
                  Not(Or(<<rawBetween, Eq(ColA, V1)>>))>>)}

PosPreds   == PredSet(RawsPos, RawReuse, RawBetween)
NamedPreds == PredSet(RawsNamed, RawReuseN, RawBetweenN)

(***************************************************************************)
(* The predicate harness: a caller holding one predicate calls ToSQL on it *)
(* once with a cursor of its choice.                                       *)
(***************************************************************************)
NoOut == [done |-> FALSE, again |-> FALSE, sql |-> <<>>, args |-> <<>>, next |-> 0, minted |-> <<>>]

\* the builder is not part of the harness
IdleBuilder == [kind |-> "none"]
\* prev: what the caller did with this builder before its last call.  Behind
\* a chain call: "none", or "built" (it was built at some time).  Behind a
\* Build: "none", "again" (the call before was a Build too), or "rebuilt" (it
\* was built, then chained on).
NoRes       == [built |-> FALSE, prev |-> "none", sql |-> <<>>, args |-> <<>>, minted |-> <<>>]
NoConv      == [done |-> FALSE, sql |-> <<>>, args |-> <<>>]
NoInl       == [done |-> FALSE, sql |-> <<>>]
\* the variables of the parts a specification leaves out
IdleBridge  == query = <<>> /\ namedArgs = <<>> /\ conv = NoConv
IdleDebug   == inl = NoInl

\* goroutines that call Build on the one builder; a goroutine not in a call
MaxThreads  == 2
Threads     == 1..MaxThreads
NoCall      == [pc |-> 0, st |-> <<>>, ret |-> <<>>, raced |-> FALSE]
IdleThreads == thr = [t \in Threads |-> NoCall]

\* no accumulating chain method has been called
NoCalls == [where |-> <<>>, having |-> <<>>, sets |-> <<>>, values |-> <<>>, again |-> FALSE,
            limit |-> <<>>, offset |-> <<>>, order |-> <<>>, on |-> FALSE]
NoLog   == calls = NoCalls

\* no row is being scanned
NoScan   == [fields |-> <<>>, columns |-> <<>>, dests |-> <<>>, done |-> FALSE]
IdleScan == scan = NoScan

InitPred ==
    /\ pmode \in {"pos", "named"}
    /\ pred \in (IF pmode = "pos" THEN PosPreds ELSE NamedPreds)
    /\ start \in (IF pmode = "pos" THEN 1..MaxCursor ELSE 0..MaxCursor)
    /\ out = NoOut
    /\ mode = "pos"
    /\ b = IdleBuilder
    /\ res = NoRes
    /\ IdleBridge /\ IdleDebug /\ IdleThreads /\ NoLog /\ IdleScan

\* sql, args, newOffset := pred.ToSQL(start); again: not the first render
RenderPos ==
    /\ pmode = "pos"
    /\ LET r == ToSQL(pred, start)
       IN  out' = [done |-> TRUE, again |-> out.done, sql |-> r.sql, args |-> r.args,
                   next |-> r.newOffset, minted |-> r.minted]
    /\ UNCHANGED <<pmode, pred, start, builderVars, bridgeVars, inl, thr, scan>>

\* c := start; sql, args := pred.ToSQL(&c)
RenderNamed ==
    /\ pmode = "named"
    /\ LET r == ToSQLN(pred, start)
       IN  out' = [done |-> TRUE, again |-> out.done, sql |-> r.sql, args |-> r.args,
                   next |-> r.counter, minted |-> r.minted]
    /\ UNCHANGED <<pmode, pred, start, builderVars, bridgeVars, inl, thr, scan>>

NextPred == RenderPos \/ RenderNamed

SpecPred == InitPred /\ [][NextPred]_vars

(***************************************************************************)
(* The statement builders.  b holds every field of the one builder object  *)
(* the caller chains on; a *int is <<>> (nil) or <<n>>.                     *)
(***************************************************************************)
MaxChain == 4    \* clauses chained onto one builder
MaxList  == 1    \* entries of a joins / groupBy / orderBy list
MaxArgs  == 2    \* predicates passed to one Where / Having call

TableT == <<"t">>
TableU == <<"u">>

\* JoinType.String
JoinTypeString(jt) ==
    CASE jt = "LeftJoinType"  -> "LEFT JOIN"
      [] jt = "RightJoinType" -> "RIGHT JOIN"
      [] jt = "FullJoinType"  -> "FULL JOIN"
      [] OTHER                -> "INNER JOIN"

\* OrderDir.String
OrderDirString(d) == IF d = "Desc" THEN "DESC" ELSE "ASC"

\* Select(fields...)
Select(fields) ==
    [kind |-> "select", distinct |-> FALSE, fields |-> fields, from |-> <<>>,
     joins |-> <<>>, where |-> <<>>, groupBy |-> <<>>, having |-> <<>>,
     orderBy |-> <<>>, limit |-> <<>>, offset |-> <<>>]

\* InsertInto(table)
InsertInto(table) ==
    [kind |-> "insert", table |-> table, columns |-> <<>>, values |-> <<>>,
     onConflict |-> <<>>, returning |-> <<>>]

\* Update(table)
Update(table) ==
    [kind |-> "update", table |-> table, sets |-> <<>>, where |-> <<>>,
     returning |-> <<>>]

\* DeleteFrom(table)
DeleteFrom(table) ==
    [kind |-> "delete", table |-> table, where |-> <<>>, returning |-> <<>>]

\* what has been chained onto the builder so far
Flag(t) == IF t THEN 1 ELSE 0
Chained(bb) ==
    CASE bb.kind = "select" ->
           Flag(bb.distinct) + Flag(bb.from # <<>>) + Len(bb.joins) + Len(bb.where)
             + Len(bb.groupBy) + Len(bb.having) + Len(bb.orderBy)
             + Len(bb.limit) + Len(bb.offset)
      [] bb.kind = "insert" ->
           Flag(bb.columns # <<>>) + Len(bb.values) + Flag(bb.onConflict # <<>>)
             + Flag(bb.returning # <<>>)
      [] bb.kind = "update" -> Len(bb.sets) + Len(bb.where) + Flag(bb.returning # <<>>)
      [] bb.kind = "delete" -> Len(bb.where) + Flag(bb.returning # <<>>)
      [] OTHER -> 0

\* room for n more clauses (a call that overwrites a clause needs none)
Room(n) == Chained(b) + n <= MaxChain

\* the predicates, values and names the callers pass
P2 == Or(<<In(ColB, <<V2, V1>>), Not(IsNull(ColA))>>)
WherePreds(m) ==
    IF m = "pos" THEN {P2, RawMix, RawBeyond}
    ELSE {P2, RawMixN, RawClashN}
HavingPreds == {Between(ColA, V2, V1)}
LimitVals   == {0, 10}
OffsetVals  == {20}
SetPairs    == {[col |-> ColA, val |-> V1], [col |-> ColB, val |-> V2]}
CellVals    == {V1, V2}
\* the rows passed to Values: k cells that alternate between the two values
RowOf(k, v)  == [j \in 1..k |-> IF j % 2 = 1 THEN v ELSE CHOOSE w \in CellVals : w # v]
Rows        == {RowOf(k, v) : k \in 0..MaxCells, v \in CellVals}
SeqsFromTo(S, lo, hi) == UNION {[1..k -> S] : k \in lo..hi}

\* a chain call leaves the results of earlier Builds with the caller; the
\* model forgets them, but for prev
Call(bb, log) ==
    /\ b' = bb
    /\ calls' = log
    /\ res' = [NoRes EXCEPT !.prev = IF res.built \/ res.prev = "built" THEN "built"
                                     ELSE "none"]
    /\ conv' = NoConv /\ inl' = NoInl
    /\ UNCHANGED <<predVars, mode, query, namedArgs, thr, scan>>

\* a chain method that sets a field or extends a list the claims do not follow
Chain(bb) == Call(bb, calls)

\* a chain method that extends the list field with args
Accumulate(bb, field, args) ==
    Call(bb, IF calls.on
             THEN [calls EXCEPT ![field] = @ \o args, !.again = @ \/ calls[field] # <<>>]
             ELSE calls)

\* a chain call that assigns the field (limit or offset) its argument; the
\* log keeps the last argument and which of the two fields was set first
Assign(bb, field, n) ==
    Call(bb, IF calls.on
             THEN [calls EXCEPT ![field] = <<n>>,
                                !.order = IF calls[field] # <<>> THEN @ ELSE Append(@, field),
                                !.again = @ \/ calls[field] # <<>>]
             ELSE calls)

\* an assignment that keeps the value an earlier call stored
setBound_KeepFirst(old, n) == IF old # <<>> THEN old ELSE <<n>>

\* b.limit = &n
setBound(old, n) == <<n>>

\* an append that keeps only what the call was given
appendAll_Replace(list, items) == items

\* append(list, items...)
appendAll(list, items) == list \o items

(***************************************************************************)
(* SelectBuilder chain methods, src/builder.go:80-150 (the same text in    *)
(* src/internal/goqdsl/goqdsl.go).                                         *)
(***************************************************************************)
SelectDistinct ==
    /\ b.kind = "select" /\ (b.distinct \/ Room(1))
    /\ Chain([b EXCEPT !.distinct = TRUE])

SelectFrom ==
    /\ b.kind = "select" /\ (b.from # <<>> \/ Room(1))
    /\ \E table \in {TableT} : Chain([b EXCEPT !.from = table])

AddJoin(jt) ==
    /\ b.kind = "select" /\ Len(b.joins) < MaxList /\ Room(1)
    /\ Chain([b EXCEPT !.joins = Append(@, [joinType |-> jt, table |-> TableU,
                                             left |-> ColA, right |-> ColB])])

SelectInnerJoin == AddJoin("InnerJoinType")
SelectLeftJoin  == AddJoin("LeftJoinType")
SelectRightJoin == AddJoin("RightJoinType")
SelectFullJoin  == AddJoin("FullJoinType")

SelectWhere ==
    /\ b.kind = "select"
    /\ \E preds \in SeqsFromTo(WherePreds(mode), 1, MaxArgs) :
         /\ Len(b.where) + Len(preds) <= MaxWhere /\ Room(Len(preds))
         /\ Accumulate([b EXCEPT !.where = appendAll(@, preds)], "where", preds)

SelectGroupBy ==
    /\ b.kind = "select" /\ Len(b.groupBy) < MaxList /\ Room(1)
    /\ Chain([b EXCEPT !.groupBy = @ \o <<ColB>>])

SelectHaving ==
    /\ b.kind = "select"
    /\ \E preds \in SeqsFromTo(HavingPreds, 1, MaxArgs) :
         /\ Len(b.having) + Len(preds) <= MaxHaving /\ Room(Len(preds))
         /\ Accumulate([b EXCEPT !.having = appendAll(@, preds)], "having", preds)

SelectOrderBy ==
    /\ b.kind = "select" /\ Len(b.orderBy) < MaxList /\ Room(1)
    /\ \E dir \in {"Asc", "Desc"} :
         Chain([b EXCEPT !.orderBy = Append(@, [col |-> ColA, dir |-> dir])])

SelectLimit ==
    /\ b.kind = "select" /\ (b.limit # <<>> \/ Room(1))
    /\ \E n \in LimitVals : Assign([b EXCEPT !.limit = setBound(@, n)], "limit", n)

SelectOffset ==
    /\ b.kind = "select" /\ (b.offset # <<>> \/ Room(1))
    /\ \E n \in OffsetVals : Assign([b EXCEPT !.offset = setBound(@, n)], "offset", n)

(***************************************************************************)
(* InsertBuilder chain methods, src/insert.go:22-46.                       *)
(***************************************************************************)
InsertColumns ==
    /\ b.kind = "insert" /\ (b.columns # <<>> \/ Room(1))
    /\ \E cols \in {<<ColA, ColB>>} : Chain([b EXCEPT !.columns = cols])

InsertValues ==
    /\ b.kind = "insert" /\ Len(b.values) < MaxRows /\ Room(1)
    /\ \E vals \in Rows :
         Accumulate([b EXCEPT !.values = appendAll(@, <<vals>>)], "values", <<vals>>)

InsertOnConflict ==
    /\ b.kind = "insert" /\ (b.onConflict # <<>> \/ Room(1))
    /\ \E action \in {<<"(", "a", ") DO UPDATE SET b = EXCLUDED.b">>} :
         Chain([b EXCEPT !.onConflict = action])

InsertReturning ==
    /\ b.kind = "insert" /\ (b.returning # <<>> \/ Room(1))
    /\ \E cols \in {<<ColA, ColB>>} : Chain([b EXCEPT !.returning = cols])

(***************************************************************************)
(* UpdateBuilder chain methods, src/internal/goqdsl/update.go:27-43 (the   *)
(* same text in src/delete.go:81-97).                                      *)
(***************************************************************************)
UpdateSet ==
    /\ b.kind = "update" /\ Len(b.sets) < MaxSets /\ Room(1)
    /\ \E sc \in SetPairs : Accumulate([b EXCEPT !.sets = appendAll(@, <<sc>>)], "sets", <<sc>>)

UpdateWhere ==
    /\ b.kind = "update"
    /\ \E preds \in SeqsFromTo(WherePreds(mode), 1, MaxArgs) :
         /\ Len(b.where) + Len(preds) <= MaxWhere /\ Room(Len(preds))
         /\ Accumulate([b EXCEPT !.where = appendAll(@, preds)], "where", preds)

UpdateReturning ==
    /\ b.kind = "update" /\ (b.returning # <<>> \/ Room(1))
    /\ \E cols \in {<<ColA, ColB>>} : Chain([b EXCEPT !.returning = cols])

(***************************************************************************)
(* DeleteBuilder chain methods, src/delete.go:20-30 (the same text in      *)
(* src/goqdsl.go:31-41).                                                   *)
(***************************************************************************)
DeleteWhere ==
    /\ b.kind = "delete"
    /\ \E preds \in SeqsFromTo(WherePreds(mode), 1, MaxArgs) :
         /\ Len(b.where) + Len(preds) <= MaxWhere /\ Room(Len(preds))
         /\ Accumulate([b EXCEPT !.where = appendAll(@, preds)], "where", preds)

DeleteReturning ==
    /\ b.kind = "delete" /\ (b.returning # <<>> \/ Room(1))
    /\ \E cols \in {<<ColA, ColB>>} : Chain([b EXCEPT !.returning = cols])

(***************************************************************************)
(* Build, positional.  The locals of a Build are threaded as one record:   *)
(*   sb the strings.Builder, args the []any, offset the cursor, and minted *)
(*   (instrumentation) the placeholder numbers handed out so far.          *)
(* A Build returns [sql, args], and self: the builder the call leaves.     *)
(***************************************************************************)
Locals(sb, args, offset, minted) ==
    [sb |-> sb, args |-> args, offset |-> offset, minted |-> minted]

Write(st, text) == [st EXCEPT !.sb = @ \o text]

Built(st, self) == [sql |-> st.sb, args |-> st.args, minted |-> st.minted, self |-> self]

\* the loop of writePredicates from predicate i on
RECURSIVE writeLoop(_, _, _)
writeLoop(st, preds, i) ==
    IF i > Len(preds) THEN st
    ELSE LET r == ToSQL(preds[i], st.offset)
         IN  writeLoop(Locals(st.sb \o (IF i > 1 THEN <<" AND ">> ELSE <<>>) \o r.sql,
                              st.args \o r.args, r.newOffset, st.minted \o r.minted),
                       preds, i + 1)

\* writePredicates(&sb, preds, offset, args), src/internal/goqdsl/goqdsl.go:222
writePredicates(st, preds) == writeLoop(st, preds, 1)

\* " WHERE " / " HAVING " and the clause, when the list is not empty
writeClause(st, keyword, preds) ==
    IF Len(preds) > 0 THEN writePredicates(Write(st, <<keyword>>), preds) ELSE st

\* LIMIT / OFFSET written without the offset++ that follows
writeBound_NoAdvance(st, keyword, ptr) ==
    IF ptr # <<>>
    THEN [sb |-> st.sb \o <<keyword, " ">> \o Dollar(st.offset),
          args |-> Append(st.args, IntV(ptr[1])),
          offset |-> st.offset, minted |-> Append(st.minted, st.offset)]
    ELSE st

\* " KEYWORD $n" of LIMIT / OFFSET, when the pointer is not nil
writeBound(st, keyword, ptr) ==
    IF ptr # <<>>
    THEN Locals(st.sb \o <<keyword, " ">> \o Dollar(st.offset), Append(st.args, IntV(ptr[1])),
                st.offset + 1, Append(st.minted, st.offset))
    ELSE st

\* SELECT [DISTINCT] fields FROM from joins
selectHead(bb) ==
    <<IF bb.distinct THEN "SELECT DISTINCT " ELSE "SELECT ">>
      \o JoinStr(bb.fields, <<", ">>) \o <<" FROM ">> \o bb.from
      \o Flatten([i \in 1..Len(bb.joins) |->
                    <<" ", JoinTypeString(bb.joins[i].joinType), " ">> \o bb.joins[i].table
                      \o <<" ON ">> \o bb.joins[i].left \o <<" = ">> \o bb.joins[i].right])

writeList(st, keyword, parts) ==
    IF Len(parts) > 0 THEN Write(st, <<keyword>> \o JoinStr(parts, <<", ">>)) ELSE st

orderParts(bb) ==
    [i \in 1..Len(bb.orderBy) |-> bb.orderBy[i].col \o <<" ", OrderDirString(bb.orderBy[i].dir)>>]

\* a Build that consumes the builder's limit
SelectBuilderBuild_ClearsLimit(bb) ==
    LET s0 == Locals(selectHead(bb), <<>>, 1, <<>>)
        s1 == writeClause(s0, " WHERE ", bb.where)
        s2 == writeList(s1, " GROUP BY ", bb.groupBy)
        s3 == writeClause(s2, " HAVING ", bb.having)
        s4 == writeList(s3, " ORDER BY ", orderParts(bb))
        s5 == writeBound(s4, " LIMIT", bb.limit)
        s6 == writeBound(s5, " OFFSET", bb.offset)
    IN  [sql |-> s6.sb, args |-> s6.args, minted |-> s6.minted,
         self |-> [bb EXCEPT !.limit = <<>>]]

\* (*SelectBuilder).Build, src/internal/goqdsl/goqdsl.go:153-218
SelectBuilderBuild(bb) ==
    LET s0 == Locals(selectHead(bb), <<>>, 1, <<>>)
        s1 == writeClause(s0, " WHERE ", bb.where)
        s2 == writeList(s1, " GROUP BY ", bb.groupBy)
        s3 == writeClause(s2, " HAVING ", bb.having)
        s4 == writeList(s3, " ORDER BY ", orderParts(bb))
        s5 == writeBound(s4, " LIMIT", bb.limit)
        s6 == writeBound(s5, " OFFSET", bb.offset)
    IN  Built(s6, bb)

\* the cells of one VALUES row: "(" placeholders ")"
RECURSIVE writeRow(_, _, _)
writeRow(st, row, j) ==
    IF j > Len(row) THEN st
    ELSE writeRow(Locals(st.sb \o (IF j > 1 THEN <<", ">> ELSE <<>>) \o Dollar(st.offset),
                         Append(st.args, row[j]), st.offset + 1,
                         Append(st.minted, st.offset)),
                  row, j + 1)

\* VALUES rows whose cells are numbered from 1 again in every row
RECURSIVE writeRows_RestartPerRow(_, _, _)
writeRows_RestartPerRow(st, rows, i) ==
    IF i > Len(rows) THEN st
    ELSE LET open == [st EXCEPT !.sb = @ \o (IF i > 1 THEN <<", ">> ELSE <<>>) \o <<"(">>,
                                !.offset = 1]
         IN  writeRows_RestartPerRow(Write(writeRow(open, rows[i], 1), <<")">>), rows, i + 1)

RECURSIVE writeRows(_, _, _)
writeRows(st, rows, i) ==
    IF i > Len(rows) THEN st
    ELSE LET open == Write(st, (IF i > 1 THEN <<", ">> ELSE <<>>) \o <<"(">>)
         IN  writeRows(Write(writeRow(open, rows[i], 1), <<")">>), rows, i + 1)

\* (*InsertBuilder).Build, src/insert.go:49-93
InsertBuilderBuild(bb) ==
    LET s0 == Locals(<<"INSERT INTO ">> \o bb.table, <<>>, 1, <<>>)
        s1 == IF Len(bb.columns) > 0
              THEN Write(s0, <<" (">> \o JoinStr(bb.columns, <<", ">>) \o <<")">>)
              ELSE s0
        s2 == writeRows(Write(s1, <<" VALUES ">>), bb.values, 1)
        s3 == IF bb.onConflict # <<>> THEN Write(s2, <<" ON CONFLICT ">> \o bb.onConflict)
              ELSE s2
        s4 == writeList(s3, " RETURNING ", bb.returning)
    IN  Built(s4, bb)

\* a SET loop without the offset++ after each assignment
RECURSIVE writeSets_SameSlot(_, _, _)
writeSets_SameSlot(st, sets, i) ==
    IF i > Len(sets) THEN st
    ELSE writeSets_SameSlot([sb |-> st.sb \o (IF i > 1 THEN <<", ">> ELSE <<>>)
                                     \o sets[i].col \o <<" = ">> \o Dollar(st.offset),
                             args |-> Append(st.args, sets[i].val),
                             offset |-> st.offset,
                             minted |-> Append(st.minted, st.offset)],
                            sets, i + 1)

\* the SET loop: "col = $n" per assignment, joined by ", "
RECURSIVE writeSets(_, _, _)
writeSets(st, sets, i) ==
    IF i > Len(sets) THEN st
    ELSE writeSets(Locals(st.sb \o (IF i > 1 THEN <<", ">> ELSE <<>>)
                            \o sets[i].col \o <<" = ">> \o Dollar(st.offset),
                          Append(st.args, sets[i].val), st.offset + 1,
                          Append(st.minted, st.offset)),
                   sets, i + 1)

\* an UPDATE Build that threads the cursor through WHERE before SET
UpdateBuilderBuild_WhereFirst(bb) ==
    LET w  == writeClause([sb |-> <<>>, args |-> <<>>, offset |-> 1, minted |-> <<>>],
                          " WHERE ", bb.where)
        s0 == [sb |-> <<"UPDATE ">> \o bb.table \o <<" SET ">>, args |-> w.args,
               offset |-> w.offset, minted |-> w.minted]
        s1 == writeSets(s0, bb.sets, 1)
        s2 == Write(s1, w.sb)
        s3 == writeList(s2, " RETURNING ", bb.returning)
    IN  [sql |-> s3.sb, args |-> s3.args, minted |-> s3.minted, self |-> bb]

\* (*UpdateBuilder).Build, src/internal/goqdsl/update.go:46-75
UpdateBuilderBuild(bb) ==
    LET s0 == Locals(<<"UPDATE ">> \o bb.table \o <<" SET ">>, <<>>, 1, <<>>)
        s1 == writeSets(s0, bb.sets, 1)
        s2 == writeClause(s1, " WHERE ", bb.where)
        s3 == writeList(s2, " RETURNING ", bb.returning)
    IN  Built(s3, bb)

\* (*DeleteBuilder).Build, src/delete.go:33-53
DeleteBuilderBuild(bb) ==
    LET s0 == Locals(<<"DELETE FROM ">> \o bb.table, <<>>, 1, <<>>)
        s1 == writeClause(s0, " WHERE ", bb.where)
        s2 == writeList(s1, " RETURNING ", bb.returning)
    IN  Built(s2, bb)

(***************************************************************************)
(* Build, named.  The locals: sb, args the map[string]any, counter, and    *)
(* minted (instrumentation) the names nextParam produced so far.           *)
(***************************************************************************)
LocalsN(sb, args, counter, minted) ==
    [sb |-> sb, args |-> args, counter |-> counter, minted |-> minted]

\* the loop of writePredicates from predicate i on
RECURSIVE writeLoopN(_, _, _)
writeLoopN(st, preds, i) ==
    IF i > Len(preds) THEN st
    ELSE LET r == ToSQLN(preds[i], st.counter)
         IN  writeLoopN(LocalsN(st.sb \o (IF i > 1 THEN <<" AND ">> ELSE <<>>) \o r.sql,
                                mergeArgs(st.args, r.args), r.counter,
                                st.minted \o r.minted),
                        preds, i + 1)

\* writePredicates(&sb, preds, &counter, args), src/builder.go:222
writePredicatesN(st, preds) == writeLoopN(st, preds, 1)

writeClauseN(st, keyword, preds) ==
    IF Len(preds) > 0 THEN writePredicatesN(Write(st, <<keyword>>), preds) ELSE st

\* a parameter written without storing the counter nextParam advanced
writeParamN_NoAdvance(st, text, value) ==
    LET np == nextParam(st.counter)
    IN  [sb |-> st.sb \o text \o At(np.name), args |-> (np.name :> value) @@ st.args,
         counter |-> st.counter, minted |-> Append(st.minted, np.name)]

\* name := nextParam(&counter); " KEYWORD @name"; args[name] = value
writeParamN(st, text, value) ==
    LET np == nextParam(st.counter)
    IN  LocalsN(st.sb \o text \o At(np.name), (np.name :> value) @@ st.args,
                np.counter, Append(st.minted, np.name))

writeBoundN(st, keyword, ptr) ==
    IF ptr # <<>> THEN writeParamN(st, <<keyword, " ">>, IntV(ptr[1])) ELSE st

\* (*SelectBuilder).Build, src/builder.go:153-218
SelectBuilderBuildN(bb) ==
    LET s0 == LocalsN(selectHead(bb), <<>>, 0, <<>>)
        s1 == writeClauseN(s0, " WHERE ", bb.where)
        s2 == writeList(s1, " GROUP BY ", bb.groupBy)
        s3 == writeClauseN(s2, " HAVING ", bb.having)
        s4 == writeList(s3, " ORDER BY ", orderParts(bb))
        s5 == writeBoundN(s4, " LIMIT", bb.limit)
        s6 == writeBoundN(s5, " OFFSET", bb.offset)
    IN  Built(s6, bb)

RECURSIVE writeSetsN(_, _, _)
writeSetsN(st, sets, i) ==
    IF i > Len(sets) THEN st
    ELSE writeSetsN(writeParamN(st, (IF i > 1 THEN <<", ">> ELSE <<>>)
                                      \o sets[i].col \o <<" = ">>, sets[i].val),
                    sets, i + 1)

\* a Build whose counter goes on from 1 when the builder was built before
UpdateBuilderBuildN_ResumesCounter(bb) ==
    LET s0 == [sb |-> <<"UPDATE ">> \o bb.table \o <<" SET ">>, args |-> <<>>,
               counter |-> IF res.prev = "built" THEN 1 ELSE 0, minted |-> <<>>]
        s1 == writeSetsN(s0, bb.sets, 1)
        s2 == writeClauseN(s1, " WHERE ", bb.where)
        s3 == writeList(s2, " RETURNING ", bb.returning)
    IN  [sql |-> s3.sb, args |-> s3.args, minted |-> s3.minted, self |-> bb]

\* (*UpdateBuilder).Build, src/delete.go:100-129
UpdateBuilderBuildN(bb) ==
    LET s0 == LocalsN(<<"UPDATE ">> \o bb.table \o <<" SET ">>, <<>>, 0, <<>>)
        s1 == writeSetsN(s0, bb.sets, 1)
        s2 == writeClauseN(s1, " WHERE ", bb.where)
        s3 == writeList(s2, " RETURNING ", bb.returning)
    IN  Built(s3, bb)

\* (*DeleteBuilder).Build, src/goqdsl.go:44-64
DeleteBuilderBuildN(bb) ==
    LET s0 == LocalsN(<<"DELETE FROM ">> \o bb.table, <<>>, 0, <<>>)
        s1 == writeClauseN(s0, " WHERE ", bb.where)
        s2 == writeList(s1, " RETURNING ", bb.returning)
    IN  Built(s2, bb)

(***************************************************************************)
(* The builder specification: a caller constructs one builder, chains on   *)
(* it and calls Build, in any order.  The named package's InsertBuilder is *)
(* not among the sources; a named caller builds the other three.           *)
(***************************************************************************)
Init ==
    /\ mode \in {"pos", "named"}
    /\ b \in {Select(<<ColA, ColB>>), Update(TableT), DeleteFrom(TableT)}
               \cup (IF mode = "pos" THEN {InsertInto(TableT)} ELSE {})
    /\ res = NoRes
    /\ pmode = "pos"
    /\ pred = IsNull(ColA)
    /\ start = 1
    /\ out = NoOut
    /\ IdleBridge /\ IdleDebug /\ IdleThreads /\ NoLog /\ IdleScan

\* sql, args := b.Build()
Return(r) ==
    /\ res' = [built |-> TRUE,
               prev |-> IF res.built THEN "again"
                        ELSE IF res.prev = "built" THEN "rebuilt" ELSE "none",
               sql |-> r.sql, args |-> r.args, minted |-> r.minted]
    /\ b' = r.self
    /\ conv' = NoConv /\ inl' = NoInl
    /\ UNCHANGED <<predVars, mode, query, namedArgs, thr, calls, scan>>

BuildSelect  == mode = "pos" /\ b.kind = "select" /\ Return(SelectBuilderBuild(b))
BuildInsert  == mode = "pos" /\ b.kind = "insert" /\ Return(InsertBuilderBuild(b))
BuildUpdate  == mode = "pos" /\ b.kind = "update" /\ Return(UpdateBuilderBuild(b))
BuildDelete  == mode = "pos" /\ b.kind = "delete" /\ Return(DeleteBuilderBuild(b))
BuildSelectN == mode = "named" /\ b.kind = "select" /\ Return(SelectBuilderBuildN(b))
BuildUpdateN == mode = "named" /\ b.kind = "update" /\ Return(UpdateBuilderBuildN(b))
BuildDeleteN == mode = "named" /\ b.kind = "delete" /\ Return(DeleteBuilderBuildN(b))

Next ==
    \/ SelectDistinct \/ SelectFrom
    \/ SelectInnerJoin \/ SelectLeftJoin \/ SelectRightJoin \/ SelectFullJoin
    \/ SelectWhere \/ SelectGroupBy \/ SelectHaving \/ SelectOrderBy
    \/ SelectLimit \/ SelectOffset
    \/ InsertColumns \/ InsertValues \/ InsertOnConflict \/ InsertReturning
    \/ UpdateSet \/ UpdateWhere \/ UpdateReturning
    \/ DeleteWhere \/ DeleteReturning
    \/ BuildSelect \/ BuildInsert \/ BuildUpdate \/ BuildDelete
    \/ BuildSelectN \/ BuildUpdateN \/ BuildDeleteN

Spec == Init /\ [][Next]_vars

(***************************************************************************)
(* The same callers with the log of their calls switched on, chaining the  *)
(* methods that take predicates or values, and building.                   *)
(***************************************************************************)
InitChain ==
    /\ mode \in {"pos", "named"}
    /\ b \in {Select(<<ColA, ColB>>), Update(TableT), DeleteFrom(TableT)}
               \cup (IF mode = "pos" THEN {InsertInto(TableT)} ELSE {})
    /\ res = NoRes
    /\ calls = [NoCalls EXCEPT !.on = TRUE]
    /\ pmode = "pos" /\ pred = IsNull(ColA) /\ start = 1 /\ out = NoOut
    /\ IdleBridge /\ IdleDebug /\ IdleThreads /\ IdleScan

NextChain ==
    \/ SelectWhere \/ SelectHaving \/ SelectLimit \/ SelectOffset
    \/ InsertValues
    \/ UpdateSet \/ UpdateWhere
    \/ DeleteWhere
    \/ BuildSelect \/ BuildInsert \/ BuildUpdate \/ BuildDelete
    \/ BuildSelectN \/ BuildUpdateN \/ BuildDeleteN

SpecChain == InitChain /\ [][NextChain]_vars

(***************************************************************************)
(* The bridge from named to positional parameters of the named package,    *)
(* src/unnamed/part_000:50-83.  seen is the map name -> position.          *)
(***************************************************************************)
MaxRefs == 3    \* @name references in one text

\* the closure run without the lookup in seen
RECURSIVE replaceNamed_NoSeen(_, _, _, _, _)
replaceNamed_NoSeen(t, named, seen, counter, args) ==
    IF t = <<>> THEN [sql |-> <<>>, args |-> args]
    ELSE IF Head(t) = "@" /\ WordRun(Tail(t)) # <<>>
         THEN LET name == WordRun(Tail(t))
                  r    == replaceNamed_NoSeen(Drop(t, 1 + Len(name)), named, seen, counter + 1,
                                              Append(args, IF name \in DOMAIN named
                                                           THEN named[name] ELSE NilV))
              IN  [r EXCEPT !.sql = Dollar(counter + 1) \o @]
         ELSE LET r == replaceNamed_NoSeen(Tail(t), named, seen, counter, args)
              IN  [r EXCEPT !.sql = <<Head(t)>> \o @]

\* namedParamRe.ReplaceAllStringFunc(query, func(match) ...) from text t on:
\* the rewritten text and args at the end.  named[name] of a missing name is
\* nil.
\* the first position of t where a marker @name starts, 0 when there is none
NextName(t) ==
    LET starts == {i \in 1..(Len(t) - 1) : t[i] = "@" /\ IsWord(t[i + 1])}
    IN  IF starts = {} THEN 0 ELSE CHOOSE i \in starts : \A j \in starts : i <= j

RECURSIVE replaceNamed(_, _, _, _, _)
replaceNamed(t, named, seen, counter, args) ==
    IF NextName(t) = 0 THEN [sql |-> t, args |-> args]
    ELSE LET i     == NextName(t)
             name  == WordRun(Drop(t, i))
             rest  == Drop(t, i + Len(name))
             front == SubSeq(t, 1, i - 1)
         IN  IF name \in DOMAIN seen
             THEN LET r == replaceNamed(rest, named, seen, counter, args)
                  IN  [r EXCEPT !.sql = front \o Dollar(seen[name]) \o @]
             ELSE LET r == replaceNamed(rest, named, (name :> (counter + 1)) @@ seen,
                                        counter + 1,
                                        Append(args, IF name \in DOMAIN named
                                                     THEN named[name] ELSE NilV))
                  IN  [r EXCEPT !.sql = front \o Dollar(counter + 1) \o @]

\* namedToPositional(query, named)
namedToPositional(q, named) ==
    IF DOMAIN named = {} THEN [sql |-> q, args |-> <<>>]
    ELSE replaceNamed(q, named, <<>>, 0, <<>>)

\* the texts and maps the callers pass: up to MaxRefs conditions on the names
\* lo, hi, id, and a text with an "@" that starts no name; maps that hold any
\* of the three names
V3 == BoolV(TRUE)
BridgeNames == {NameLo, NameHi, NameId}
FullMap == (NameLo :> V1) @@ (NameHi :> V2) @@ (NameId :> V3)
Restrict(f, S) == [x \in S |-> f[x]]
BridgeMaps == {Restrict(FullMap, S) : S \in SUBSET BridgeNames}
QueryOf(ns) ==
    <<"SELECT a FROM t WHERE ">>
      \o JoinStr([i \in 1..Len(ns) |-> <<"c", " = ">> \o At(ns[i])], <<" AND ">>)
Queries ==
    {QueryOf(ns) : ns \in SeqsUpTo(BridgeNames, MaxRefs)}
      \cup {<<"a", " @> ", "@", "i", "d", "2", " OR ", "b", " = ", "@", "?">>}

InitBridge ==
    /\ query \in Queries
    /\ namedArgs \in BridgeMaps
    /\ conv = NoConv
    /\ pmode = "pos" /\ pred = IsNull(ColA) /\ start = 1 /\ out = NoOut
    /\ mode = "named" /\ b = IdleBuilder /\ res = NoRes
    /\ IdleDebug /\ IdleThreads /\ NoLog /\ IdleScan

\* positionalSQL, args := NamedToPositional(query, named)
NamedToPositional ==
    /\ LET r == namedToPositional(query, namedArgs)
       IN  conv' = [done |-> TRUE, sql |-> r.sql, args |-> r.args]
    /\ UNCHANGED <<predVars, builderVars, query, namedArgs, inl, thr, scan>>

NextBridge == NamedToPositional

SpecBridge == InitBridge /\ [][NextBridge]_vars

(***************************************************************************)
(* Claims about predicate rendering, checked under SpecPred.               *)
(***************************************************************************)
Rendered(m) == out.done /\ pmode = m

\* C1: a positional render at cursor c returns next with next - c = len(args),
\* whatever the predicate tree; IsNull and IsNotNull return next = c and no args.
C1_ConsumesOneSlotPerArg ==
    Rendered("pos") =>
        /\ out.next - start = Len(out.args)
        /\ pred.kind \in {"isNullPred", "isNotNullPred"} =>
               out.next = start /\ out.args = <<>>

\* a nested tree holding comparisons, Between, Not and a Raw, rendered at a
\* cursor other than 1
C1_Witness ==
    /\ Rendered("pos") /\ start > 1
    /\ pred.kind = "andPred" /\ Len(pred.preds) = 2
    /\ pred.preds[2].kind = "notPred"
    /\ Len(out.args) = 7

\* the cursors the children of an And/Or get: child 1 the node's own cursor,
\* child i+1 the cursor child i returned
RECURSIVE ChildCursor(_, _, _)
ChildCursor(ps, c, i) ==
    IF i = 1 THEN c ELSE ToSQL(ps[i - 1], ChildCursor(ps, c, i - 1)).newOffset

ChildResult(ps, c, i) == ToSQL(ps[i], ChildCursor(ps, c, i))

RECURSIVE ConcatTo(_, _)
ConcatTo(f, n) == IF n = 0 THEN <<>> ELSE ConcatTo(f, n - 1) \o f[n]

RECURSIVE SumTo(_, _)
SumTo(f, n) == IF n = 0 THEN 0 ELSE SumTo(f, n - 1) + f[n]

\* child fragments in the order given, with the separator between neighbours
RECURSIVE Separated(_, _, _)
Separated(f, n, sep) ==
    IF n = 0 THEN <<>>
    ELSE IF n = 1 THEN f[1]
    ELSE Separated(f, n - 1, sep) \o sep \o f[n]

Separator(p) == IF p.kind = "andPred" THEN <<" ", "AND", " ">> ELSE <<" ", "OR", " ">>

\* what the claim says of one And/Or node r = render of p at c
NodeWellCombined(p, c, r) ==
    LET n  == Len(p.preds)
        rs == [i \in 1..n |-> ChildResult(p.preds, c, i)]
    IN  /\ r.sql  = <<"(">> \o Separated([i \in 1..n |-> rs[i].sql], n, Separator(p)) \o <<")">>
        /\ r.args = ConcatTo([i \in 1..n |-> rs[i].args], n)
        /\ r.next = rs[n].newOffset
        /\ r.next - c = SumTo([i \in 1..n |-> rs[i].newOffset - ChildCursor(p.preds, c, i)], n)

AsOut(r) == [sql |-> r.sql, args |-> r.args, next |-> r.newOffset]

\* the same of every And/Or node below p, each at the cursor it is rendered at
RECURSIVE SubtreesWellCombined(_, _)
SubtreesWellCombined(p, c) ==
    \A i \in 1..Len(p.preds) :
        LET q  == p.preds[i]
            ci == ChildCursor(p.preds, c, i)
        IN  /\ (q.kind \in {"andPred", "orPred"} /\ Len(q.preds) >= 2) =>
                   NodeWellCombined(q, ci, AsOut(ToSQL(q, ci)))
            /\ SubtreesWellCombined(q, ci)

\* C2: And/Or over two or more children renders them in the order given, child
\* i+1 at the cursor child i returned; the text is the fragments joined by
\* " AND " / " OR " inside one pair of parentheses, args is the concatenation of
\* the children's args, the cursor returned is the last child's, at any depth.
C2_CombinatorThreadsCursor ==
    Rendered("pos") =>
        /\ (pred.kind \in {"andPred", "orPred"} /\ Len(pred.preds) >= 2) =>
               NodeWellCombined(pred, start, out)
        /\ SubtreesWellCombined(pred, start)

\* And(Or(Eq, And(Eq, Between)), Not(Or(Raw, Eq))) rendered at a cursor > 1
C2_Witness ==
    /\ Rendered("pos") /\ start > 1
    /\ pred.kind = "andPred" /\ Len(pred.preds) = 2
    /\ pred.preds[1].kind = "orPred" /\ Len(pred.preds[1].preds) = 2
    /\ pred.preds[1].preds[2].kind = "andPred"
    /\ out.next = start + 7

ChildOut(p) ==
    IF pmode = "pos"
    THEN LET r == ToSQL(p, start)
         IN  [done |-> TRUE, again |-> out.again, sql |-> r.sql, args |-> r.args,
              next |-> r.newOffset, minted |-> r.minted]
    ELSE LET r == ToSQLN(p, start)
         IN  [done |-> TRUE, again |-> out.again, sql |-> r.sql, args |-> r.args,
              next |-> r.counter, minted |-> r.minted]

\* C3: And/Or without children renders the empty string, no args and the cursor
\* unchanged; And/Or with one child returns what that child returns at the same
\* cursor (no parentheses added), positional and named alike.
C3_EmptyAndSingleCombinator ==
    (out.done /\ pred.kind \in {"andPred", "orPred"}) =>
        /\ Len(pred.preds) = 0 =>
               out.sql = <<>> /\ out.args = <<>> /\ out.next = start
        /\ Len(pred.preds) = 1 =>
               out = ChildOut(pred.preds[1])

\* a named Or over one IsNull child, rendered with the counter at 2
C3_Witness ==
    /\ Rendered("named") /\ start = 2
    /\ pred.kind = "orPred" /\ Len(pred.preds) = 1
    /\ out.sql = <<"a", " IS NULL">>

(***************************************************************************)
(* Claims about Build, checked under Spec.  A claim reads the statement    *)
(* the caller holds (res) against the builder it was built from (b): the   *)
(* markers are scanned from the text, the values they stand for are read   *)
(* from the builder's clauses.                                             *)
(***************************************************************************)
BuiltIn(m) == res.built /\ mode = m

\* the numbers of the $n markers of a text, in text order
RECURSIVE Markers(_)
Markers(t) ==
    IF t = <<>> THEN <<>>
    ELSE IF Head(t) = "$" /\ DigitRun(Tail(t)) # <<>>
         THEN <<Atoi(DigitRun(Tail(t)))>> \o Markers(Drop(t, 1 + Len(DigitRun(Tail(t)))))
         ELSE Markers(Tail(t))

\* the names of the @name markers of a text, in text order
RECURSIVE MarkerNames(_)
MarkerNames(t) ==
    IF t = <<>> THEN <<>>
    ELSE IF Head(t) = "@" /\ WordRun(Tail(t)) # <<>>
         THEN <<WordRun(Tail(t))>> \o MarkerNames(Drop(t, 1 + Len(WordRun(Tail(t)))))
         ELSE MarkerNames(Tail(t))

\* the text up to the first chunk kw (all of it when there is none), and the
\* text after that chunk (none when there is none)
RECURSIVE Before(_, _)
Before(t, kw) ==
    IF t = <<>> \/ Head(t) = kw THEN <<>> ELSE <<Head(t)>> \o Before(Tail(t), kw)

After(t, kw) == Drop(t, Len(Before(t, kw)) + 1)

\* the generated name pK
PName(k) == <<"p">> \o FmtInt(k)

IsRaw(p)  == p.kind = "rawPred"
IsNode(p) == p.kind \in {"andPred", "orPred", "notPred"}

\* the values a predicate, a list of predicates, binds through the cursor
RECURSIVE Values(_)
RECURSIVE ValuesOf(_)
Values(p) == IF IsNode(p) THEN ValuesOf(p.preds) ELSE p.vals

ValuesOf(ps) == IF ps = <<>> THEN <<>> ELSE Values(Head(ps)) \o ValuesOf(Tail(ps))

\* for each $n marker of a predicate's text, in text order, the position in
\* args of the value the predicate supplies for it, when base values precede
\* the predicate's own; 0 when the predicate supplies no value for the marker
RECURSIVE Slots(_, _)
RECURSIVE SlotsOf(_, _)
Slots(p, base) ==
    IF IsNode(p) THEN SlotsOf(p.preds, base)
    ELSE IF IsRaw(p)
         THEN LET ms == Markers(p.sql)
              IN  [i \in 1..Len(ms) |-> IF ms[i] \in 1..Len(p.vals) THEN base + ms[i] ELSE 0]
         ELSE [i \in 1..Len(p.vals) |-> base + i]

SlotsOf(ps, base) ==
    IF ps = <<>> THEN <<>>
    ELSE Slots(Head(ps), base) \o SlotsOf(Tail(ps), base + Len(Values(Head(ps))))

\* the same for named text: the generated name of each value, and the names a
\* Raw fragment carries
RECURSIVE Names(_, _)
RECURSIVE NamesOf(_, _)
Names(p, base) ==
    IF IsNode(p) THEN NamesOf(p.preds, base)
    ELSE IF IsRaw(p) THEN MarkerNames(p.sql)
    ELSE [i \in 1..Len(p.vals) |-> PName(base + i)]

NamesOf(ps, base) ==
    IF ps = <<>> THEN <<>>
    ELSE Names(Head(ps), base) \o NamesOf(Tail(ps), base + Len(Values(Head(ps))))

\* the Raw predicates of a list, at any depth
RECURSIVE RawsIn(_)
RawsIn(ps) ==
    IF ps = <<>> THEN {}
    ELSE (IF IsRaw(Head(ps)) THEN {Head(ps)}
          ELSE IF IsNode(Head(ps)) THEN RawsIn(Head(ps).preds) ELSE {})
           \cup RawsIn(Tail(ps))

\* the predicates given to a builder
Clauses(bb) ==
    CASE bb.kind = "select" -> bb.where \o bb.having
      [] bb.kind = "insert" -> <<>>
      [] OTHER              -> bb.where

NoRaw(bb) == RawsIn(Clauses(bb)) = {}

\* a Raw whose fragment refers to each of its k args, as $1..$k, and to nothing else
WellFormedRaw(p) ==
    LET ms == Markers(p.sql) IN {ms[i] : i \in 1..Len(ms)} = 1..Len(p.vals)

RawsWellFormed(bb) == \A p \in RawsIn(Clauses(bb)) : WellFormedRaw(p)

\* every parameter of a statement in the order of its text, a value bound
\* outside a predicate standing as one comparison
Param(v)   == Eq(<<>>, v)
Bound(ptr) == IF ptr = <<>> THEN <<>> ELSE <<Param(IntV(ptr[1]))>>
SetVals(bb) == [i \in 1..Len(bb.sets) |-> bb.sets[i].val]
Sources(bb) ==
    CASE bb.kind = "select" -> bb.where \o bb.having \o Bound(bb.limit) \o Bound(bb.offset)
      [] bb.kind = "update" -> [i \in 1..Len(bb.sets) |-> Param(bb.sets[i].val)] \o bb.where
      [] bb.kind = "insert" -> LET cells == Flatten(bb.values)
                               IN  [i \in 1..Len(cells) |-> Param(cells[i])]
      [] OTHER              -> bb.where

\* text and args of the statement held are aligned 1:1
Aligned ==
    LET ms == Markers(res.sql)
    IN  /\ \A i \in 1..Len(ms) : ms[i] \in 1..Len(res.args)
        /\ \A n \in 1..Len(res.args) : \E i \in 1..Len(ms) : ms[i] = n
        /\ ms = SlotsOf(Sources(b), 0)
        /\ res.args = ValuesOf(Sources(b))

\* C4 as stated: in positional mode text and args of every Build are aligned
\* 1:1, whatever the fragment and the args of the Raw predicates given.
C4_AnyFragmentAligned == BuiltIn("pos") => Aligned

\* C4: in positional mode, when every Raw predicate given refers to each of its
\* k args as $1..$k and to no other marker, text and args of every Build are
\* aligned 1:1: every $n has 1 <= n <= len(args), every position of args is
\* referenced, and args[n-1] is the value the marker's predicate supplied.
C4_WellFormedRawAligned == (BuiltIn("pos") /\ RawsWellFormed(b)) => Aligned

\* a SELECT with a two-arg Raw that repeats a marker, an Or after it, and LIMIT
C4_Witness ==
    /\ BuiltIn("pos") /\ b.kind = "select"
    /\ b.where = <<RawMix, P2>> /\ b.limit = <<10>>
    /\ Len(res.args) = 5

\* C5: in one Build no placeholder is handed out twice: positional numbers are
\* pairwise distinct, one per value of args; the names nextParam produced are
\* p1..pn, each once, each a key of args, and without Raw the only keys.
C5_NoPlaceholderMintedTwice ==
    res.built =>
        /\ \A i, j \in 1..Len(res.minted) : i # j => res.minted[i] # res.minted[j]
        /\ mode = "pos" => Len(res.minted) = Len(res.args)
        /\ mode = "named" =>
               /\ \A k \in 1..Len(res.minted) : res.minted[k] = PName(k)
               /\ \A k \in 1..Len(res.minted) : res.minted[k] \in DOMAIN res.args
               /\ NoRaw(b) => DOMAIN res.args = {res.minted[k] : k \in 1..Len(res.minted)}

\* a named UPDATE: two SET assignments, then an Or holding an In of two values
C5_Witness ==
    /\ BuiltIn("named") /\ b.kind = "update"
    /\ Len(b.sets) = 2 /\ b.where = <<P2>>
    /\ Len(res.minted) = 4

SelectValues(bb) ==
    ValuesOf(bb.where) \o ValuesOf(bb.having)
      \o (IF bb.limit # <<>> THEN <<IntV(bb.limit[1])>> ELSE <<>>)
      \o (IF bb.offset # <<>> THEN <<IntV(bb.offset[1])>> ELSE <<>>)

\* C6: a SELECT without Raw predicates carries the placeholders 1..n (named:
\* p1..pn) in left-to-right text order, and its args are the values of WHERE,
\* then HAVING, then LIMIT, then OFFSET, value i under placeholder i.
C6_SelectThreadsOneCursor ==
    (res.built /\ b.kind = "select" /\ NoRaw(b)) =>
        LET vs == SelectValues(b)
            n  == Len(vs)
        IN  IF mode = "pos"
            THEN /\ Markers(res.sql) = [i \in 1..n |-> i]
                 /\ res.args = vs
            ELSE /\ MarkerNames(res.sql) = [i \in 1..n |-> PName(i)]
                 /\ DOMAIN res.args = {PName(i) : i \in 1..n}
                 /\ \A i \in 1..n : res.args[PName(i)] = vs[i]

\* WHERE, HAVING, LIMIT and OFFSET all present
C6_Witness ==
    /\ BuiltIn("pos") /\ b.kind = "select"
    /\ b.where = <<P2>> /\ Len(b.having) = 1
    /\ b.limit = <<10>> /\ b.offset = <<20>>
    /\ Len(res.args) = Len(ValuesOf(b.having)) + 4

\* the SET list and the WHERE clause of an UPDATE text
SetText(sql)   == Before(Before(sql, " WHERE "), " RETURNING ")
WhereText(sql) == Before(After(sql, " WHERE "), " RETURNING ")

\* the numbers of the placeholders of a text: n of $n, K of @pK
NameNums(names) == [i \in 1..Len(names) |-> Atoi(Tail(names[i]))]
Nums(t) == IF mode = "pos" THEN Markers(t) ELSE NameNums(MarkerNames(t))

\* an UPDATE whose WHERE placeholders all come from the cursor
CursorUpdate == res.built /\ b.kind = "update" /\ (mode = "named" => NoRaw(b))

\* C7 as stated: every WHERE placeholder of an UPDATE has a lower number than
\* every SET placeholder.
C7_WhereBelowSet ==
    CursorUpdate =>
        \A i \in 1..Len(Nums(WhereText(res.sql))), j \in 1..Len(Nums(SetText(res.sql))) :
            Nums(WhereText(res.sql))[i] < Nums(SetText(res.sql))[j]

\* C7: the cursor of an UPDATE goes through SET before WHERE: every SET
\* placeholder has a lower number than every WHERE placeholder, and in
\* positional mode the SET values are the first entries of args.
C7_SetBelowWhere ==
    CursorUpdate =>
        /\ \A i \in 1..Len(Nums(WhereText(res.sql))), j \in 1..Len(Nums(SetText(res.sql))) :
               Nums(SetText(res.sql))[j] < Nums(WhereText(res.sql))[i]
        /\ mode = "pos" => SubSeq(res.args, 1, Len(b.sets)) = SetVals(b)

\* two SET assignments and a WHERE of a Raw and an Or
C7_Witness ==
    /\ BuiltIn("pos") /\ b.kind = "update"
    /\ Len(b.sets) = 2 /\ b.where = <<RawMix, P2>>
    /\ Nums(WhereText(res.sql)) = <<3, 4, 3, 5, 6>>

\* "col = <placeholder i>" of every Set call, in call order
SetList(bb) ==
    Separated([i \in 1..Len(bb.sets) |->
                 bb.sets[i].col \o <<" = ">>
                   \o (IF mode = "pos" THEN Dollar(i) ELSE At(PName(i)))],
              Len(bb.sets), <<", ">>)

\* no Raw of the builder carries an arg under one of the names p1..pn
NoClash(bb, n) ==
    \A p \in RawsIn(Clauses(bb)) : DOMAIN p.named \cap {PName(i) : i \in 1..n} = {}

\* C8: an UPDATE numbers its SET assignments 1..k (p1..pk) in the order of the
\* Set calls and its WHERE predicates from k+1 on; args hold the SET values,
\* then the WHERE values.
C8_SetNumberedFirst ==
    (res.built /\ b.kind = "update") =>
        LET k  == Len(b.sets)
            vs == SetVals(b) \o ValuesOf(b.where)
        IN  /\ SetText(res.sql) = <<"UPDATE ">> \o b.table \o <<" SET ">> \o SetList(b)
            /\ IF mode = "pos"
               THEN /\ res.args = vs
                    /\ RawsWellFormed(b) => Markers(WhereText(res.sql)) = SlotsOf(b.where, k)
               ELSE /\ MarkerNames(WhereText(res.sql)) = NamesOf(b.where, k)
                    /\ NoClash(b, Len(vs)) =>
                           \A i \in 1..Len(vs) : res.args[PName(i)] = vs[i]

\* Set, Set, Where(Or(In of two, Not)): SET $1, $2 and WHERE $3, $4
C8_Witness ==
    /\ BuiltIn("pos") /\ b.kind = "update"
    /\ Len(b.sets) = 2 /\ b.sets[1] # b.sets[2]
    /\ b.where = <<P2>>
    /\ Markers(res.sql) = <<1, 2, 3, 4>>

\* placeholder of the cell in row r (from 1), column j (from 0)
CellNumber(rows, r, j) == 1 + SumTo([i \in 1..(r - 1) |-> Len(rows[i])], r - 1) + j

RowText(rows, r) ==
    <<"(">> \o Separated([j \in 1..Len(rows[r]) |-> Dollar(CellNumber(rows, r, j - 1))],
                         Len(rows[r]), <<", ">>)
          \o <<")">>

ValuesText(rows) == Separated([r \in 1..Len(rows) |-> RowText(rows, r)], Len(rows), <<", ">>)

\* C9: an INSERT numbers its VALUES cells row-major, the cell of row r, column
\* j carrying 1 + (the lengths of the rows before r) + j; args are the cells in
\* that order; ON CONFLICT and RETURNING follow the rows and add no
\* placeholder and no arg.
C9_ValuesRowMajor ==
    (res.built /\ b.kind = "insert") =>
        /\ After(res.sql, " VALUES ")
             = ValuesText(b.values)
                 \o (IF b.onConflict # <<>> THEN <<" ON CONFLICT ">> \o b.onConflict ELSE <<>>)
                 \o (IF b.returning # <<>>
                     THEN <<" RETURNING ">> \o Separated(b.returning, Len(b.returning), <<", ">>)
                     ELSE <<>>)
        /\ res.args = Flatten(b.values)
        /\ Markers(res.sql) = [i \in 1..Len(Flatten(b.values)) |-> i]

\* a row of two cells, a row of one, ON CONFLICT and RETURNING
C9_Witness ==
    /\ res.built /\ b.kind = "insert"
    /\ Len(b.values) = 2 /\ Len(b.values[1]) = 2 /\ Len(b.values[2]) = 1
    /\ b.onConflict # <<>> /\ b.returning # <<>>
    /\ Markers(res.sql) = <<1, 2, 3>>

\* C10: a Build leaves the builder as it was, and a Build that follows a Build
\* with no chain call in between returns the same text and the same args.
C10_BuildIdempotent ==
    [][res'.built =>
         /\ b' = b
         /\ res.built => (res'.sql = res.sql /\ res'.args = res.args)]_vars

\* a second Build of a SELECT with WHERE and LIMIT
C10_Witness ==
    /\ res.built /\ res.prev = "again"
    /\ b.kind = "select" /\ Len(b.where) = 2 /\ b.limit # <<>>

\* what Build returns for builder bb in the package of mode
BuildOf(bb) ==
    IF mode = "pos"
    THEN CASE bb.kind = "select" -> SelectBuilderBuild(bb)
           [] bb.kind = "insert" -> InsertBuilderBuild(bb)
           [] bb.kind = "update" -> UpdateBuilderBuild(bb)
           [] OTHER              -> DeleteBuilderBuild(bb)
    ELSE CASE bb.kind = "select" -> SelectBuilderBuildN(bb)
           [] bb.kind = "update" -> UpdateBuilderBuildN(bb)
           [] OTHER              -> DeleteBuilderBuildN(bb)

RECURSIVE MarkerDigits(_)
MarkerDigits(t) ==
    IF t = <<>> THEN <<>>
    ELSE IF Head(t) = "$" /\ DigitRun(Tail(t)) # <<>>
         THEN <<DigitRun(Tail(t))>> \o MarkerDigits(Drop(t, 1 + Len(DigitRun(Tail(t)))))
         ELSE MarkerDigits(Tail(t))

\* a digit run that is the decimal form of an int
RECURSIVE FitsAcc(_, _)
FitsAcc(ds, acc) ==
    IF ds = <<>> THEN TRUE
    ELSE IF acc > (MaxInt - DigitVal(Head(ds))) \div 10 THEN FALSE
    ELSE FitsAcc(Tail(ds), acc * 10 + DigitVal(Head(ds)))

FitsInt(ds) == FitsAcc(ds, 0)

\* a text with every $n marker replaced by one "?"
RECURSIVE Strip(_)
Strip(t) ==
    IF t = <<>> THEN <<>>
    ELSE IF Head(t) = "$" /\ DigitRun(Tail(t)) # <<>>
         THEN <<"?">> \o Strip(Drop(t, 1 + Len(DigitRun(Tail(t)))))
         ELSE <<Head(t)>> \o Strip(Tail(t))

\* every marker n of the fragment is an int, and so is n + c - 1
Shiftable(t, c) ==
    \A i \in 1..Len(MarkerDigits(t)) :
        FitsInt(MarkerDigits(t)[i]) /\ Markers(t)[i] <= MaxInt - (c - 1)

\* C13: a positional Raw rendered at cursor c turns every $n of its fragment
\* into $(n + c - 1), equal markers into equal markers, and leaves the rest of
\* the text alone; it returns its args as given and advances the cursor by
\* the number of args.
C13_RawShiftsLinearly ==
    (Rendered("pos") /\ IsRaw(pred) /\ Shiftable(pred.sql, start)) =>
        /\ Markers(out.sql) = [i \in 1..Len(Markers(pred.sql)) |->
                                 Markers(pred.sql)[i] + start - 1]
        /\ Strip(out.sql) = Strip(pred.sql)
        /\ out.args = pred.vals
        /\ out.next = start + Len(pred.vals)

\* $1, $2, $1 with two args at cursor 3: $3, $4, $3 and cursor 5
C13_Witness ==
    /\ Rendered("pos") /\ pred = RawMix /\ start = 3
    /\ Markers(out.sql) = <<3, 4, 3>> /\ out.next = 5

\* a Raw below p with a marker whose digits are no int
RECURSIVE HasUnparsable(_)
HasUnparsable(p) ==
    IF IsRaw(p) THEN \E i \in 1..Len(MarkerDigits(p.sql)) : ~FitsInt(MarkerDigits(p.sql)[i])
    ELSE \E i \in 1..Len(p.preds) : HasUnparsable(p.preds[i])

\* C17: a positional render of a Raw with a marker that cannot be parsed as an
\* index fails: it never returns a text.
C17_UnparsableMarkerFails == (pmode = "pos" /\ HasUnparsable(pred)) => ~out.done

(***************************************************************************)
(* More claims about Build, checked under Spec.                            *)
(***************************************************************************)
\* the builder without the Raw predicates given to it
NotRaw(p) == ~IsRaw(p)
Unraw(bb) ==
    CASE bb.kind = "select" -> [bb EXCEPT !.where = SelectSeq(@, NotRaw),
                                          !.having = SelectSeq(@, NotRaw)]
      [] bb.kind = "insert" -> bb
      [] OTHER              -> [bb EXCEPT !.where = SelectSeq(@, NotRaw)]

\* the chunks of frag stand in text, side by side
Occurs(frag, text) ==
    \E i \in 0..(Len(text) - Len(frag)) : SubSeq(text, i + 1, i + Len(frag)) = frag

\* C14: a named Raw returns its fragment and its map as constructed and the
\* counter as it found it; in a Build the fragment stands in the text as
\* written, its args are keys of the args map, and the names generated for
\* the other parameters are those of the same builder without its Raws.
C14_NamedRawLeavesCounter ==
    BuiltIn("named") =>
        /\ \A p \in RawsIn(Clauses(b)) :
               /\ \A c \in 0..MaxCursor :
                      /\ ToSQLN(p, c).sql = p.sql
                      /\ ToSQLN(p, c).args = p.named
                      /\ ToSQLN(p, c).counter = c
               /\ Occurs(p.sql, res.sql)
               /\ DOMAIN p.named \subseteq DOMAIN res.args
               /\ NoClash(b, Len(res.minted)) =>
                      \A nm \in DOMAIN p.named : res.args[nm] = p.named[nm]
        /\ res.minted = BuildOf(Unraw(b)).minted
        /\ MarkerNames(res.sql) = NamesOf(Sources(b), 0)

\* WHERE of an Or with two values and a Raw with two names, then LIMIT:
\* p1, p2, the names of the Raw, p3
C14_Witness ==
    /\ BuiltIn("named") /\ b.kind = "select"
    /\ b.where = <<P2, RawMixN>> /\ b.limit # <<>>
    /\ MarkerNames(res.sql) = <<PName(1), PName(2), NameId, NameLo, NameId, PName(3)>>

(***************************************************************************)
(* Execution through the named package's DB, src/unnamed/part_000:29-48:   *)
(* a caller constructs one named builder, chains on it and hands it to     *)
(* Exec, QueryRow or Query, which build it and convert what Build returns. *)
(***************************************************************************)
\* b.Build() on the Builder interface of the named package
BuildN(bb) ==
    CASE bb.kind = "select" -> SelectBuilderBuildN(bb)
      [] bb.kind = "update" -> UpdateBuilderBuildN(bb)
      [] OTHER              -> DeleteBuilderBuildN(bb)

InitExec == Init /\ mode = "named"

\* the statement and values handed to the driver, and what Build left behind
Converted(r, c) ==
    /\ res' = [built |-> TRUE,
               prev |-> IF res.built THEN "again"
                        ELSE IF res.prev = "built" THEN "rebuilt" ELSE "none",
               sql |-> r.sql, args |-> r.args, minted |-> r.minted]
    /\ b' = r.self
    /\ conv' = [done |-> TRUE, sql |-> c.sql, args |-> c.args]
    /\ inl' = NoInl
    /\ UNCHANGED <<predVars, mode, query, namedArgs, thr, calls, scan>>

\* positionalSQL, args := namedToPositional(query, named)
Convert(r) == Converted(r, namedToPositional(r.sql, r.args))

\* query, named := b.Build(); positionalSQL, args := namedToPositional(query, named)
Exec == mode = "named" /\ Convert(BuildN(b))

NextExec ==
    \/ SelectDistinct \/ SelectFrom
    \/ SelectInnerJoin \/ SelectLeftJoin \/ SelectRightJoin \/ SelectFullJoin
    \/ SelectWhere \/ SelectGroupBy \/ SelectHaving \/ SelectOrderBy
    \/ SelectLimit \/ SelectOffset
    \/ UpdateSet \/ UpdateWhere \/ UpdateReturning
    \/ DeleteWhere \/ DeleteReturning
    \/ Exec

SpecExec == InitExec /\ [][NextExec]_vars

(***************************************************************************)
(* The positional package's debug helper, src/unnamed/part_002: ToSQL(b)   *)
(* builds b and replaces, for i from len(args) down to 1, the first        *)
(* occurrence of "$i" in the text by formatValue(args[i-1]).               *)
(***************************************************************************)
MaxDebugWhere == 2    \* predicates in the WHERE of a builder handed to ToSQL
MaxDebugArgs  == 12   \* values bound by those predicates

\* b.Build() on the Builder interface of the positional package
Build(bb) ==
    CASE bb.kind = "select" -> SelectBuilderBuild(bb)
      [] bb.kind = "insert" -> InsertBuilderBuild(bb)
      [] bb.kind = "update" -> UpdateBuilderBuild(bb)
      [] OTHER              -> DeleteBuilderBuild(bb)

\* a ReplaceAll that leaves the quotes of the string single
doubleQuotes_Keep(s) == s

\* strings.ReplaceAll(val, "'", "''")
RECURSIVE doubleQuotes(_)
doubleQuotes(s) ==
    IF s = <<>> THEN <<>>
    ELSE (IF Head(s) = "'" THEN <<"'", "'">> ELSE <<Head(s)>>) \o doubleQuotes(Tail(s))

\* formatValue(v)
formatValue(v) ==
    CASE v.k = "str"  -> <<"'">> \o doubleQuotes(v.s) \o <<"'">>
      [] v.k = "nil"  -> <<"NULL">>
      [] v.k = "bool" -> IF v.n = 1 THEN <<"TRUE">> ELSE <<"FALSE">>
      [] OTHER        -> FmtInt(v.n)

\* strings.Index(t, old), counted from 1; 0 when old does not occur
Index(t, old) ==
    LET hits == {i \in 1..(Len(t) - Len(old) + 1) : SubSeq(t, i, i + Len(old) - 1) = old}
    IN  IF hits = {} THEN 0 ELSE CHOOSE i \in hits : \A j \in hits : i <= j

\* strings.Replace(t, old, new, 1)
Replace1(t, old, new) ==
    LET i == Index(t, old)
    IN  IF i = 0 THEN t
        ELSE SubSeq(t, 1, i - 1) \o new \o Drop(t, i + Len(old) - 1)

\* the loop of ToSQL from index i (counted from 1) down
RECURSIVE inlineLoop(_, _, _)
inlineLoop(result, args, i) ==
    IF i < 1 THEN result
    ELSE inlineLoop(Replace1(result, Dollar(i), formatValue(args[i])), args, i - 1)

\* the builders the callers hand to ToSQL: selects and updates whose WHERE
\* holds up to MaxDebugWhere of these predicates
V3s      == StrV(<<"O", "'", "B">>)
VDollar  == StrV(<<"$", "1">>)
VFalse   == BoolV(FALSE)
TenVals  == [i \in 1..10 |-> IntV(i)]
RawWide  == Raw(<<"a", " = ", "$", "1", "0", " OR ", "b", " = ", "$", "1", "0",
                  " OR ", "c", " = ", "$", "1">>,
                <<V2>> \o [i \in 1..9 |-> IntV(i + 1)])
\* a fragment whose higher marker comes first, bound to a string holding "$1"
RawSwap  == Raw(<<"a", " = ", "$", "2", " AND ", "b", " = ", "$", "1">>, <<V1, VDollar>>)
DebugPreds ==
    {Eq(ColA, V2), Eq(ColA, NilV), Eq(ColB, V3s), Eq(ColB, VDollar), Eq(ColA, VFalse),
     Gt(ColA, V1), In(ColB, TenVals), RawMix, RawWide, RawSwap}
RECURSIVE ValueCount(_)
ValueCount(ps) == IF ps = <<>> THEN 0 ELSE Len(Head(ps).vals) + ValueCount(Tail(ps))
DebugWheres ==
    {ps \in SeqsUpTo(DebugPreds, MaxDebugWhere) : ValueCount(ps) <= MaxDebugArgs}
DebugBuilders ==
    {[Select(<<ColA, ColB>>) EXCEPT !.from = TableT, !.where = ps, !.limit = l] :
         ps \in DebugWheres, l \in {<<>>, <<10>>}}
      \cup {[Update(TableT) EXCEPT !.sets = <<[col |-> ColA, val |-> V3]>>, !.where = ps] :
                ps \in DebugWheres}

\* the named package's debug helper, src/unnamed/part_003

\* formatValue(v) of the named package
formatValueN(v) ==
    CASE v.k = "str"  -> <<"'">> \o doubleQuotes(v.s) \o <<"'">>
      [] v.k = "nil"  -> <<"NULL">>
      [] v.k = "bool" -> IF v.n = 1 THEN <<"TRUE">> ELSE <<"FALSE">>
      [] OTHER        -> FmtInt(v.n)

\* a replacement that, like strings.Replace with count 1, serves each name once
RECURSIVE inlineNamed_Once(_, _)
inlineNamed_Once(t, args) ==
    IF t = <<>> THEN <<>>
    ELSE IF Head(t) = "@" /\ WordRun(Tail(t)) # <<>>
         THEN LET name == WordRun(Tail(t))
              IN  IF name \in DOMAIN args
                  THEN formatValueN(args[name])
                         \o inlineNamed_Once(Drop(t, 1 + Len(name)),
                                             [k \in DOMAIN args \ {name} |-> args[k]])
                  ELSE At(name) \o inlineNamed_Once(Drop(t, 1 + Len(name)), args)
         ELSE <<Head(t)>> \o inlineNamed_Once(Tail(t), args)

\* debugParamRe.ReplaceAllStringFunc(query, func(match) ...) from text t on
RECURSIVE inlineNamed(_, _)
inlineNamed(t, args) ==
    IF t = <<>> THEN <<>>
    ELSE IF Head(t) = "@" /\ WordRun(Tail(t)) # <<>>
         THEN LET name == WordRun(Tail(t))
              IN  (IF name \in DOMAIN args THEN formatValueN(args[name]) ELSE At(name))
                    \o inlineNamed(Drop(t, 1 + Len(name)), args)
         ELSE <<Head(t)>> \o inlineNamed(Tail(t), args)

\* the named builders the callers hand to ToSQL
VAt         == StrV(<<"@", "p", "1">>)
RawMissingN == RawNamed(<<"c", " = ", "@", "l", "o", " AND ", "d", " = ", "@", "h", "i">>,
                        NameLo :> V1)
DebugPredsN ==
    {Eq(ColA, V2), Eq(ColA, NilV), Eq(ColB, V3s), Eq(ColB, VAt), Eq(ColA, VFalse),
     Gt(ColA, V1), RawMixN, RawMissingN}
DebugBuildersN ==
    {[Select(<<ColA, ColB>>) EXCEPT !.from = TableT, !.where = ps, !.limit = l] :
         ps \in SeqsUpTo(DebugPredsN, MaxDebugWhere), l \in {<<>>, <<10>>}}
      \cup {[Update(TableT) EXCEPT !.sets = <<[col |-> ColA, val |-> V3]>>, !.where = ps] :
                ps \in SeqsUpTo(DebugPredsN, MaxDebugWhere)}

InitDebug ==
    /\ mode \in {"pos", "named"}
    /\ b \in (IF mode = "pos" THEN DebugBuilders ELSE DebugBuildersN)
    /\ res = NoRes
    /\ pmode = "pos" /\ pred = IsNull(ColA) /\ start = 1 /\ out = NoOut
    /\ IdleBridge /\ IdleDebug /\ IdleThreads /\ NoLog /\ IdleScan

\* what Build returned to ToSQL and the text ToSQL returns
Inlined(r, text) ==
    /\ res' = [built |-> TRUE,
               prev |-> IF res.built THEN "again"
                        ELSE IF res.prev = "built" THEN "rebuilt" ELSE "none",
               sql |-> r.sql, args |-> r.args, minted |-> r.minted]
    /\ b' = r.self
    /\ inl' = [done |-> TRUE, sql |-> text]
    /\ conv' = NoConv
    /\ UNCHANGED <<predVars, mode, query, namedArgs, thr, calls, scan>>

\* the body of the positional ToSQL after query, args := b.Build()
Inline(r) == Inlined(r, inlineLoop(r.sql, r.args, Len(r.args)))

\* the body of the named ToSQL after query, args := b.Build()
InlineN(r) == Inlined(r, inlineNamed(r.sql, r.args))

\* got := ToSQL(b), positional package
DebugToSQL == mode = "pos" /\ ~inl.done /\ Inline(Build(b))

\* got := ToSQL(b), named package
DebugToSQLN == mode = "named" /\ ~inl.done /\ InlineN(BuildN(b))

NextDebug == DebugToSQL \/ DebugToSQLN

SpecDebug == InitDebug /\ [][NextDebug]_vars

(***************************************************************************)
(* Concurrent Build: MaxThreads goroutines call Build on one SelectBuilder *)
(* that nobody chains on.  A call runs clause by clause                    *)
(* (src/builder.go:153-218, the same steps in                              *)
(* src/internal/goqdsl/goqdsl.go:153-218); thr[t].pc is the clause         *)
(* goroutine t is about to write (0 not in a call, 8 returned), thr[t].st  *)
(* its sb, args and cursor, thr[t].ret what its call returned, and         *)
(* thr[t].raced (instrumentation) whether another call was under way       *)
(* during one of its steps.                                                *)
(***************************************************************************)
ConcWheres(m) == {<<>>, <<P2>>, <<P2, IF m = "pos" THEN RawMix ELSE RawMixN>>}
ConcBuilders(m) ==
    {[Select(<<ColA, ColB>>) EXCEPT !.from = TableT, !.where = w, !.having = h,
                                    !.limit = l, !.offset = o] :
         w \in ConcWheres(m), h \in {<<>>, <<Between(ColA, V2, V1)>>},
         l \in {<<>>, <<10>>}, o \in {<<>>, <<20>>}}

InitConc ==
    /\ mode \in {"pos", "named"}
    /\ b \in ConcBuilders(mode)
    /\ res = NoRes
    /\ pmode = "pos" /\ pred = IsNull(ColA) /\ start = 1 /\ out = NoOut
    /\ IdleBridge /\ IdleDebug /\ IdleThreads /\ NoLog /\ IdleScan

\* locals that are one object shared by the calls: what the call that is
\* furthest along has written
LocalsOf_Shared(t) ==
    thr[CHOOSE u \in Threads : \A v \in Threads : thr[v].pc <= thr[u].pc].st

\* sb, args and offset / counter of goroutine t's call: variables of its frame
LocalsOf(t) == thr[t].st

Racing(t) == \E u \in Threads \ {t} : thr[u].pc \in 1..7

\* goroutine t, about to write clause n, leaves its locals as st
Advance(t, n, st, ret) ==
    /\ thr[t].pc = n
    /\ thr' = [thr EXCEPT ![t] = [pc |-> n + 1, st |-> st, ret |-> ret,
                                  raced |-> thr[t].raced \/ Racing(t)]]
    /\ UNCHANGED <<predVars, builderVars, bridgeVars, inl, scan>>

\* var sb; args; offset := 1 / counter := 0; SELECT ... FROM ... JOINs
BuildEnter(t) ==
    Advance(t, 0, IF mode = "pos" THEN Locals(selectHead(b), <<>>, 1, <<>>)
                  ELSE LocalsN(selectHead(b), <<>>, 0, <<>>), <<>>)

BuildWhere(t) ==
    Advance(t, 1, IF mode = "pos" THEN writeClause(LocalsOf(t), " WHERE ", b.where)
                  ELSE writeClauseN(LocalsOf(t), " WHERE ", b.where), <<>>)

BuildGroupBy(t) == Advance(t, 2, writeList(LocalsOf(t), " GROUP BY ", b.groupBy), <<>>)

BuildHaving(t) ==
    Advance(t, 3, IF mode = "pos" THEN writeClause(LocalsOf(t), " HAVING ", b.having)
                  ELSE writeClauseN(LocalsOf(t), " HAVING ", b.having), <<>>)

BuildOrderBy(t) == Advance(t, 4, writeList(LocalsOf(t), " ORDER BY ", orderParts(b)), <<>>)

BuildLimit(t) ==
    Advance(t, 5, IF mode = "pos" THEN writeBound(LocalsOf(t), " LIMIT", b.limit)
                  ELSE writeBoundN(LocalsOf(t), " LIMIT", b.limit), <<>>)

BuildOffset(t) ==
    Advance(t, 6, IF mode = "pos" THEN writeBound(LocalsOf(t), " OFFSET", b.offset)
                  ELSE writeBoundN(LocalsOf(t), " OFFSET", b.offset), <<>>)

\* return sb.String(), args
BuildReturn(t) == Advance(t, 7, LocalsOf(t), <<Built(LocalsOf(t), b)>>)

NextConc ==
    \E t \in Threads :
        \/ BuildEnter(t) \/ BuildWhere(t) \/ BuildGroupBy(t) \/ BuildHaving(t)
        \/ BuildOrderBy(t) \/ BuildLimit(t) \/ BuildOffset(t) \/ BuildReturn(t)

SpecConc == InitConc /\ [][NextConc]_vars

(***************************************************************************)
(* Row scanning, src/db.go:109-160 (scanStruct, called by FetchOne and     *)
(* FetchAll for each row).  A struct type is the list of its fields, each   *)
(* [name, tag]: tag is the value of the db tag, <<>> when the field has    *)
(* none.  dests[i] is the index of the field column i is scanned into, 0   *)
(* for the discard destination.  Names are sequences of characters.        *)
(***************************************************************************)
MaxFields  == 2    \* fields of the struct type
MaxColumns == 2    \* columns of the row

\* fieldMap after the loop over fields i..NumField: later fields overwrite
RECURSIVE buildFieldMap(_, _, _)
buildFieldMap(fields, i, fieldMap) ==
    IF i > Len(fields) THEN fieldMap
    ELSE LET f   == fields[i]
             tag == IF f.tag = <<>> THEN f.name ELSE f.tag
         IN  IF f.tag = <<"-">> THEN buildFieldMap(fields, i + 1, fieldMap)
             ELSE buildFieldMap(fields, i + 1, (tag :> i) @@ fieldMap)

\* dests of scanStruct for the struct type and the columns of the row
scanStruct(fields, columns) ==
    LET fieldMap == buildFieldMap(fields, 1, <<>>)
    IN  [i \in 1..Len(columns) |->
            IF columns[i] \in DOMAIN fieldMap THEN fieldMap[columns[i]] ELSE 0]

\* the struct types and result columns of the callers
Field(name, tag) == [name |-> name, tag |-> tag]
FName   == <<"N", "a", "m", "e">>
FUid    == <<"U", "i", "d">>
FSecret == <<"S", "e", "c", "r", "e", "t">>
FieldChoices ==
    {Field(FName, <<>>), Field(FName, <<"n", "a", "m", "e">>),
     Field(FUid, <<"u", "u", "i", "d">>), Field(FSecret, <<"-">>)}
ColumnChoices ==
    {<<"n", "a", "m", "e">>, <<"N", "a", "m", "e">>, <<"u", "u", "i", "d">>,
     <<"S", "e", "c", "r", "e", "t">>, <<"-">>, <<"a", "g", "e">>}

InitScan ==
    /\ scan \in {[NoScan EXCEPT !.fields = fs, !.columns = cs] :
                    fs \in SeqsFromTo(FieldChoices, 1, MaxFields),
                    cs \in SeqsFromTo(ColumnChoices, 1, MaxColumns)}
    /\ pmode = "pos" /\ pred = IsNull(ColA) /\ start = 1 /\ out = NoOut
    /\ mode = "named" /\ b = IdleBuilder /\ res = NoRes
    /\ IdleBridge /\ IdleDebug /\ IdleThreads /\ NoLog

\* result, err := scanStruct[T](rows)
ScanStruct ==
    /\ ~scan.done
    /\ scan' = [scan EXCEPT !.dests = scanStruct(scan.fields, scan.columns), !.done = TRUE]
    /\ UNCHANGED <<predVars, builderVars, bridgeVars, inl, thr>>

NextScan == ScanStruct

SpecScan == InitScan /\ [][NextScan]_vars

(***************************************************************************)
(* Claims about the bridge, checked under SpecBridge.                      *)
(***************************************************************************)
\* the names of a list without repeats, in the order of their first places
RECURSIVE FirstOccurrences(_)
FirstOccurrences(ns) ==
    IF ns = <<>> THEN <<>>
    ELSE LET front == FirstOccurrences(SubSeq(ns, 1, Len(ns) - 1))
             last  == ns[Len(ns)]
         IN  IF \E i \in 1..Len(front) : front[i] = last THEN front ELSE Append(front, last)

IndexIn(x, xs) == CHOOSE i \in 1..Len(xs) : xs[i] = x

\* a text with every @name marker replaced by one "?"
RECURSIVE StripNames(_)
StripNames(t) ==
    IF t = <<>> THEN <<>>
    ELSE IF Head(t) = "@" /\ WordRun(Tail(t)) # <<>>
         THEN <<"?">> \o StripNames(Drop(t, 1 + Len(WordRun(Tail(t)))))
         ELSE <<Head(t)>> \o StripNames(Tail(t))

AllNamesBound(q, named) ==
    \A i \in 1..Len(MarkerNames(q)) : MarkerNames(q)[i] \in DOMAIN named

\* C15: for a text whose names all have an entry in the map, every @name is
\* rewritten to $N, N the rank of the name among the distinct names in the
\* order of their first occurrence, the rest of the text is kept, and the
\* values returned are the map's values of the distinct names in that order.
C15_FirstOccurrenceOrder ==
    (conv.done /\ AllNamesBound(query, namedArgs)) =>
        LET ns     == MarkerNames(query)
            firsts == FirstOccurrences(ns)
        IN  /\ Markers(conv.sql) = [i \in 1..Len(ns) |-> IndexIn(ns[i], firsts)]
            /\ Strip(conv.sql) = StripNames(query)
            /\ conv.args = [j \in 1..Len(firsts) |-> namedArgs[firsts[j]]]

\* @id, @lo, @id with both names in the map: $1, $2, $1 and two values
C15_Witness ==
    /\ conv.done
    /\ MarkerNames(query) = <<NameId, NameLo, NameId>>
    /\ DOMAIN namedArgs = BridgeNames
    /\ Markers(conv.sql) = <<1, 2, 1>> /\ conv.args = <<V3, V1>>

\* C16: a text with an @name that has no entry in the map makes the bridge
\* fail: it never returns a text and values.
C16_MissingNameIsError ==
    ~AllNamesBound(query, namedArgs) => ~conv.done

(***************************************************************************)
(* Claims about execution through the bridge, checked under SpecExec.      *)
(***************************************************************************)
\* the string a text of chunks stands for
RECURSIVE FlatRange(_, _, _)
FlatRange(t, lo, hi) ==
    IF lo > hi THEN ""
    ELSE IF lo = hi THEN t[lo]
    ELSE LET mid == (lo + hi) \div 2
         IN  FlatRange(t, lo, mid) \o FlatRange(t, mid + 1, hi)
Flat(t) == FlatRange(t, 1, Len(t))

\* C18: for a builder without Raw predicates, the text and values the bridge
\* makes of the named Build are the text and values of the positional Build
\* of the same chain calls.
C18_BridgeAgreesWithPositional ==
    (conv.done /\ res.built /\ mode = "named" /\ NoRaw(b)) =>
        LET r == Build(b)
        IN  /\ conv.args = r.args
            /\ Flat(conv.sql) = Flat(r.sql)

\* a select with an OR of IN and NOT in WHERE, a BETWEEN in HAVING and a
\* LIMIT, executed: five values
C18_Witness ==
    /\ conv.done /\ res.built /\ mode = "named"
    /\ b.kind = "select" /\ b.where = <<P2>> /\ b.having = <<Between(ColA, V2, V1)>>
    /\ b.limit # <<>>
    /\ Markers(conv.sql) = <<1, 2, 3, 4, 5>>
    /\ Len(conv.args) = 5 /\ conv.args[3] = V2 /\ conv.args[4] = V1

(***************************************************************************)
(* Claims about the debug helper, checked under SpecDebug.                 *)
(***************************************************************************)
\* text t with every marker $n, n in 1..Len(args), replaced by the literal of
\* args[n], in one pass
RECURSIVE InlineAll(_, _)
InlineAll(t, args) ==
    IF t = <<>> THEN <<>>
    ELSE IF Head(t) = "$" /\ DigitRun(Tail(t)) # <<>>
         THEN LET ds == DigitRun(Tail(t))
                  n  == Atoi(ds)
              IN  (IF n \in 1..Len(args) THEN formatValue(args[n]) ELSE <<"$">> \o ds)
                    \o InlineAll(Drop(t, 1 + Len(ds)), args)
         ELSE <<Head(t)>> \o InlineAll(Tail(t), args)

\* no bound string holds a "$"
NoDollarValues(args) ==
    \A i \in 1..Len(args) : \A j \in 1..Len(args[i].s) : args[i].s[j] # "$"

\* C19: for any builder whose bound strings hold no "$", the text ToSQL
\* returns has no marker $n left for n in 1..len(args), and every occurrence
\* of such a marker in the built text has become formatValue(args[n-1]).
C19_EveryOccurrenceInlined ==
    (inl.done /\ mode = "pos" /\ NoDollarValues(res.args)) =>
        /\ \A i \in 1..Len(Markers(inl.sql)) : Markers(inl.sql)[i] \notin 1..Len(res.args)
        /\ inl.sql = InlineAll(res.sql, res.args)

\* C20: in a statement with ten or more args the text ToSQL returns holds the
\* literal of $1 directly followed by a digit only where the statement with
\* every marker replaced by its own value holds it too.
C20_NoStrayDigit ==
    (inl.done /\ mode = "pos" /\ Len(res.args) >= 10 /\ NoDollarValues(res.args)) =>
        \A d \in DigitSet :
            Occurs(formatValue(res.args[1]) \o <<d>>, inl.sql)
                => Occurs(formatValue(res.args[1]) \o <<d>>, InlineAll(res.sql, res.args))

\* the literal the debug helper is said to write for a value
Doubled(str) == Flatten([i \in 1..Len(str) |-> IF str[i] = "'" THEN <<"'", "'">> ELSE <<str[i]>>])
Literal(v) ==
    CASE v.k = "str"  -> <<"'">> \o Doubled(v.s) \o <<"'">>
      [] v.k = "nil"  -> <<"NULL">>
      [] v.k = "bool" -> IF v = BoolV(TRUE) THEN <<"TRUE">> ELSE <<"FALSE">>
      [] OTHER        -> FmtInt(v.n)

\* one comparison is all of the builder's WHERE, and nothing follows it
OneComparison(bb) ==
    /\ Len(bb.where) = 1 /\ bb.where[1].kind \in CmpKinds
    /\ bb.kind = "select" => (bb.having = <<>> /\ bb.limit = <<>> /\ bb.offset = <<>>)
    /\ bb.kind = "update" => bb.returning = <<>>

\* C21: ToSQL of a statement whose WHERE is one comparison col op v ends in
\* col op L, L the literal of v: a string in one pair of single quotes with
\* each of its quotes doubled, nil as NULL, a bool as TRUE or FALSE, an int in
\* decimal; the value of an UPDATE's SET is written the same way.  Both
\* packages.
C21_LiteralOfValue ==
    (inl.done /\ OneComparison(b)) =>
        LET p    == b.where[1]
            tail == <<" WHERE ">> \o p.col \o OpText(p.kind) \o Literal(p.vals[1])
        IN  Flat(inl.sql) =
                Flat((IF b.kind = "select" THEN selectHead(b)
                      ELSE <<"UPDATE ">> \o b.table \o <<" SET ">> \o b.sets[1].col
                             \o <<" = ">> \o Literal(b.sets[1].val)) \o tail)

\* ToSQL(Select(a, b).From(t).Where(Eq(b, "O'B"))) in the positional package
C21_Witness ==
    /\ inl.done /\ mode = "pos" /\ b.kind = "select" /\ b.where = <<Eq(ColB, V3s)>>
    /\ b.limit = <<>>
    /\ Flat(inl.sql) = "SELECT a, b FROM t WHERE b = 'O''B'"

(***************************************************************************)
(* Claims about concurrent Build, checked under SpecConc.                  *)
(***************************************************************************)
\* C22: under every interleaving of the goroutines' steps, a call of Build
\* that has returned returned what a Build running alone returns for the
\* builder, and left the builder as it was.
C22_ConcurrentBuildIsSequential ==
    \A t \in Threads :
        thr[t].pc = 8 =>
            /\ thr[t].ret[1].sql = BuildOf(b).sql
            /\ thr[t].ret[1].args = BuildOf(b).args
            /\ thr[t].ret[1].self = b

\* two calls that overlapped have both returned, on a builder with a Raw in
\* WHERE, a HAVING and a LIMIT
C22_Witness ==
    /\ thr[1].pc = 8 /\ thr[2].pc = 8 /\ thr[1].raced /\ thr[2].raced
    /\ Len(b.where) = 2 /\ b.having # <<>> /\ b.limit # <<>>
    /\ thr[1].ret = thr[2].ret /\ Len(thr[1].ret[1].sql) > 0

(***************************************************************************)
(* Claims about single predicates, checked under SpecPred.  A cursor c is  *)
(* the number of the next placeholder: the offset handed to a positional   *)
(* ToSQL, one more than the counter handed to a named one.                 *)
(***************************************************************************)
Cursor == IF pmode = "pos" THEN start ELSE start + 1

\* the placeholder of number n in the package of the render
Mark(n) == IF pmode = "pos" THEN Dollar(n) ELSE At(PName(n))

\* the values returned are vs, value i bound to the placeholder of c + i - 1
BoundFrom(c, vs) ==
    IF pmode = "pos" THEN out.args = vs
    ELSE /\ DOMAIN out.args = {PName(c + i - 1) : i \in 1..Len(vs)}
         /\ \A i \in 1..Len(vs) : out.args[PName(c + i - 1)] = vs[i]

\* C23: In(col, v1..vk) at cursor c renders col IN (<c>, ..., <c+k-1>), returns
\* the values with value i bound to c + i - 1 and advances the cursor by k
\* (k = 0: col IN () and nothing consumed); Between(col, low, high) renders
\* col BETWEEN <c> AND <c+1>, binds low to c and high to c + 1 and advances
\* the cursor by 2.
C23_InAndBetween ==
    (out.done /\ pred.kind \in {"inPred", "betweenPred"}) =>
        LET k == Len(pred.vals)
        IN  /\ out.next = start + k
            /\ BoundFrom(Cursor, pred.vals)
            /\ pred.kind = "inPred" =>
                   Flat(out.sql) =
                       Flat(pred.col \o <<" IN (">>
                              \o JoinStr([i \in 1..k |-> Mark(Cursor + i - 1)], <<", ">>)
                              \o <<")">>)
            /\ pred.kind = "betweenPred" =>
                   /\ k = 2
                   /\ Flat(out.sql) =
                          Flat(pred.col \o <<" BETWEEN ">> \o Mark(Cursor) \o <<" AND ">>
                                 \o Mark(Cursor + 1))

\* In(a, "x", 7, 7) rendered at cursor 2: a IN ($2, $3, $4)
C23_Witness ==
    /\ out.done /\ pmode = "pos" /\ start = 2
    /\ pred = In(ColA, <<V2, V1, V1>>)
    /\ Flat(out.sql) = "a IN ($2, $3, $4)" /\ out.next = 5

\* the operator each comparison is said to write
OpWord(kind) ==
    CASE kind = "eqPred"    -> "="
      [] kind = "neqPred"   -> "!="
      [] kind = "gtPred"    -> ">"
      [] kind = "gtePred"   -> ">="
      [] kind = "ltPred"    -> "<"
      [] kind = "ltePred"   -> "<="
      [] kind = "likePred"  -> "LIKE"
      [] kind = "ilikePred" -> "ILIKE"

\* C24: Eq, Neq, Gt, Gte, Lt, Lte, Like and ILike at cursor c render
\* column, operator, placeholder of c, return the one value they were made
\* with bound to that placeholder, and advance the cursor by 1, at every
\* start cursor.
C24_ComparisonAtCursor ==
    (out.done /\ pred.kind \in CmpKinds) =>
        /\ Flat(out.sql) = Flat(pred.col \o <<" ", OpWord(pred.kind), " ">> \o Mark(Cursor))
        /\ Len(pred.vals) = 1
        /\ BoundFrom(Cursor, pred.vals)
        /\ out.next = start + 1

\* ILike(a, 7) rendered at cursor 3: a ILIKE $3
C24_Witness ==
    /\ out.done /\ pmode = "pos" /\ start = 3
    /\ pred = Cmp("ilikePred", ColA, V1)
    /\ Flat(out.sql) = "a ILIKE $3" /\ out.args = <<V1>> /\ out.next = 4

(***************************************************************************)
(* Claims about the chain methods, checked under SpecChain.                *)
(***************************************************************************)
\* the builder with each accumulating method called once, with all the
\* arguments the calls were given, in call order
AsOneCallEach(bb) ==
    CASE bb.kind = "select" -> [bb EXCEPT !.where = calls.where, !.having = calls.having]
      [] bb.kind = "insert" -> [bb EXCEPT !.values = calls.values]
      [] bb.kind = "update" -> [bb EXCEPT !.sets = calls.sets, !.where = calls.where]
      [] OTHER              -> [bb EXCEPT !.where = calls.where]

LowerChar(ch) ==
    CASE ch = "N" -> "n" [] ch = "U" -> "u" [] ch = "S" -> "s" [] OTHER -> ch
Lower(name) == [i \in 1..Len(name) |-> LowerChar(name[i])]

\* the column name a field is said to answer to; none for a field tagged "-"
Answers(f, col) ==
    /\ f.tag # <<"-">>
    /\ col = (IF f.tag # <<>> THEN f.tag ELSE Lower(f.name))

\* C26: a column is scanned into a field that answers to it - by its db tag,
\* or without a tag by the lowercase form of its name - when there is one,
\* and is discarded when there is none; a field tagged "-" gets no column.
C26_TagOrLowercaseName ==
    scan.done =>
        \A i \in 1..Len(scan.columns) :
            IF \E k \in 1..Len(scan.fields) : Answers(scan.fields[k], scan.columns[i])
            THEN /\ scan.dests[i] # 0
                 /\ Answers(scan.fields[scan.dests[i]], scan.columns[i])
            ELSE scan.dests[i] = 0

(***************************************************************************)
(* Claims about clashing names, checked under SpecChain.                   *)
(***************************************************************************)
\* the maps the predicates of a list contribute, one per predicate in list
\* order, and the counter after them
RECURSIVE PredContribs(_, _, _)
PredContribs(preds, i, counter) ==
    IF i > Len(preds) THEN [maps |-> <<>>, counter |-> counter]
    ELSE LET r    == ToSQLN(preds[i], counter)
             rest == PredContribs(preds, i + 1, r.counter)
         IN  [maps |-> <<r.args>> \o rest.maps, counter |-> rest.counter]

AutoName(n) == <<"p">> \o FmtInt(n)
BoundContrib(ptr, n) == IF ptr # <<>> THEN <<AutoName(n) :> IntV(ptr[1])>> ELSE <<>>

\* the maps merged into a statement's args, in rendering order: clause by
\* clause, predicate by predicate
Contributors(bb) ==
    CASE bb.kind = "select" ->
            LET w == PredContribs(bb.where, 1, 0)
                h == PredContribs(bb.having, 1, w.counter)
                l == BoundContrib(bb.limit, h.counter + 1)
                o == BoundContrib(bb.offset, h.counter + Len(l) + 1)
            IN  w.maps \o h.maps \o l \o o
      [] bb.kind = "update" ->
            [i \in 1..Len(bb.sets) |-> AutoName(i) :> bb.sets[i].val]
                \o PredContribs(bb.where, 1, Len(bb.sets)).maps
      [] OTHER -> PredContribs(bb.where, 1, 0).maps

\* the value the last contributor holding the key gives it
LastWith(maps, key) ==
    LET holders == {i \in 1..Len(maps) : key \in DOMAIN maps[i]}
    IN  maps[CHOOSE i \in holders : \A j \in holders : j <= i][key]

RECURSIVE Entries(_)
Entries(maps) ==
    IF maps = <<>> THEN 0 ELSE Cardinality(DOMAIN Head(maps)) + Entries(Tail(maps))

\* a Raw predicate of the statement brings a key that is also a generated name
Clash(bb, minted) ==
    \E i \in 1..Len(bb.where) :
        /\ bb.where[i].kind = "rawPred"
        /\ \E j \in 1..Len(minted) : minted[j] \in DOMAIN bb.where[i].named

\* C27: a named Build whose Raw map holds a generated name of the same
\* statement completes, its args hold for every key the value of the
\* contributor merged last in rendering order, and they have fewer entries
\* than the statement has logical parameters.
C27_ClashLaterWins ==
    (BuiltIn("named") /\ Clash(b, res.minted)) =>
        LET maps == Contributors(b)
        IN  /\ DOMAIN res.args = UNION {DOMAIN maps[i] : i \in 1..Len(maps)}
            /\ \A key \in DOMAIN res.args : res.args[key] = LastWith(maps, key)
            /\ Cardinality(DOMAIN res.args) < Entries(maps)

\* an UPDATE whose SET made p1 = 7 and whose WHERE brings a Raw p1 = 'x':
\* the Raw, rendered later, holds the key
C27_Witness ==
    /\ BuiltIn("named") /\ Clash(b, res.minted)
    /\ b.kind = "update" /\ Len(b.sets) > 0 /\ b.sets[1].val = V1
    /\ res.args[NameP1] = V2

(***************************************************************************)
(* Claims about the substitutions of the debug helpers, under SpecDebug.   *)
(***************************************************************************)
\* every marker of 1..n occurs at most once in the text
EachMarkerOnce(t, n) ==
    \A i, j \in 1..Len(Markers(t)) :
        (Markers(t)[i] = Markers(t)[j] /\ Markers(t)[i] \in 1..n) => i = j

\* C28: in positional ToSQL the literal inlined for a marker is not altered
\* by the substitution of a lower marker: for a statement whose markers each
\* occur once the returned text is the built text with each marker replaced
\* by its own literal, whatever the bound strings hold and in whatever order
\* a Raw fragment places its markers.
C28_LiteralsUntouched ==
    (inl.done /\ mode = "pos" /\ EachMarkerOnce(res.sql, Len(res.args))) =>
        inl.sql = InlineAll(res.sql, res.args)

\* the positions of the built text where a marker @name starts, and its name
NameStarts(t) == {i \in 1..(Len(t) - 1) : t[i] = "@" /\ IsWord(t[i + 1])}
NameAt(t, i)  == WordRun(Drop(t, i))
\* position i lies in the name of a marker that has an entry
InBoundName(t, args, i) ==
    \E s \in NameStarts(t) :
        s < i /\ i <= s + Len(NameAt(t, s)) /\ NameAt(t, s) \in DOMAIN args

\* the built text with, position by position, each marker that has an entry
\* replaced by the literal of that entry and everything else kept
NamedInlined(t, args) ==
    Flatten([i \in 1..Len(t) |->
        IF i \in NameStarts(t) /\ NameAt(t, i) \in DOMAIN args
            THEN Literal(args[NameAt(t, i)])
        ELSE IF InBoundName(t, args, i) THEN <<>>
        ELSE <<t[i]>>])

\* C29: the text the named ToSQL returns is the built text with every @name
\* that has an entry replaced by the literal of the entry, repeated names
\* included, and every other @name kept; what a substitution wrote is not
\* scanned again, so the literal of a bound '@p1' stands in the result.
C29_SinglePass ==
    (inl.done /\ mode = "named") =>
        /\ inl.sql = NamedInlined(res.sql, res.args)
        /\ \A name \in DOMAIN res.args :
               (res.args[name] = VAt /\ Occurs(At(name), res.sql))
                   => Occurs(<<"'", "@", "p", "1", "'">>, inl.sql)

\* WHERE b = @p1 AND c = @lo AND d = @hi with p1 bound to '@p1' and no entry
\* for hi: '@p1' and @hi stand in the result, @lo does not
C29_Witness ==
    /\ inl.done /\ mode = "named" /\ b.kind = "select"
    /\ b.where = <<Eq(ColB, VAt), RawMissingN>>
    /\ res.args[NameP1] = VAt
    /\ Occurs(<<"'", "@", "p", "1", "'">>, inl.sql)
    /\ Occurs(At(NameHi), inl.sql)
    /\ ~Occurs(At(NameLo), inl.sql)

(***************************************************************************)
(* Claims about LIMIT and OFFSET, checked under SpecChain.                 *)
(***************************************************************************)
\* what a placeholder starts with, and the value bound to the one numbered ds
Sym == IF mode = "pos" THEN <<"$">> ELSE <<"@", "p">>
BoundTo(ds) ==
    IF mode = "pos"
    THEN (IF Atoi(ds) \in 1..Len(res.args) THEN res.args[Atoi(ds)] ELSE NilV)
    ELSE (IF (<<"p">> \o ds) \in DOMAIN res.args THEN res.args[<<"p">> \o ds] ELSE NilV)

KeywordAt(kw)  == {i \in 1..Len(res.sql) : res.sql[i] = kw}
DigitsAfter(i) == DigitRun(Drop(res.sql, i + 1 + Len(Sym)))
EndOf(i)       == i + 1 + Len(Sym) + Len(DigitsAfter(i))

\* the keyword stands once in the text, followed by one placeholder, bound to
\* n, and then by what is in follow or by the end of the text
OnePlaceholder(kw, n, follow) ==
    /\ Cardinality(KeywordAt(kw)) = 1
    /\ \A i \in KeywordAt(kw) :
        /\ SubSeq(res.sql, i + 1, i + 1 + Len(Sym)) = <<" ">> \o Sym
        /\ DigitsAfter(i) # <<>>
        /\ BoundTo(DigitsAfter(i)) = IntV(n)
        /\ EndOf(i) = Len(res.sql) \/ res.sql[EndOf(i) + 1] \in follow

Clause(kw, log, follow) ==
    IF log # <<>> THEN OnePlaceholder(kw, log[1], follow) ELSE KeywordAt(kw) = {}

NumberOf(kw) == Atoi(DigitsAfter(CHOOSE i \in KeywordAt(kw) : TRUE))

\* C30: a built SELECT holds LIMIT (OFFSET) with exactly one placeholder if
\* Limit (Offset) was called, with 0 too, and does not hold it otherwise; the
\* placeholder is bound to the argument of the last call; with both, OFFSET
\* follows LIMIT and its placeholder has the next number, whichever of the
\* two was called first.
C30_LimitOffset ==
    (res.built /\ b.kind = "select") =>
        /\ Clause(" LIMIT", calls.limit, {" OFFSET"})
        /\ Clause(" OFFSET", calls.offset, {})
        /\ (calls.limit # <<>> /\ calls.offset # <<>>)
               => NumberOf(" OFFSET") = NumberOf(" LIMIT") + 1

\* Offset called first, then Limit twice, the last time with 0: LIMIT is
\* bound to 0 and numbered before OFFSET
C30_Witness ==
    /\ res.built /\ b.kind = "select"
    /\ calls.order = <<"offset", "limit">> /\ calls.again
    /\ calls.limit = <<0>> /\ b.where = <<>> /\ b.having = <<>>
    /\ NumberOf(" LIMIT") = 1 /\ NumberOf(" OFFSET") = 2
    /\ BoundTo(<<"1">>) = IntV(0)

====
